---- MODULE Spec2Model ----
(***************************************************************************)
(* A model of the physalis viewport core: the GeomScene transform store    *)
(* and its combined-mesh cache (crates/cad-core, crates/cad-geom) and the  *)
(* editor's pointer handlers with their drag session (crates/cad-web).     *)
(*                                                                         *)
(* f32 values are fixed-point integers with One standing for 1.0; vectors  *)
(* are tuples <<x, y, z>> and quaternions <<x, y, z, w>> of such values.   *)
(* Option<T> is a sequence: None is <<>> and Some(v) is <<v>>.             *)
(***************************************************************************)
EXTENDS Integers, Sequences, FiniteSets, TLC

(***************************************************************************)
(* Bounds of the model.                                                    *)
(***************************************************************************)
\* Objects a scene holds at most (add calls are disabled beyond it).
MaxObjects == 3
\* objects the editor adds, drag sessions it starts, panel events it takes
AppMaxObjects == 1
MaxSessions == 1
MaxEdits == 1
\* The largest ObjectId: u64::MAX scaled down so that saturation is reached.
IdMax == 1

(***************************************************************************)
(* Fixed-point arithmetic for f32.                                         *)
(***************************************************************************)
One == 1000

Abs(a) == IF a < 0 THEN -a ELSE a
Sgn(a) == IF a < 0 THEN -1 ELSE 1
Max(a, b) == IF a >= b THEN a ELSE b
Min(a, b) == IF a <= b THEN a ELSE b
\* a / b rounded to the nearest value (b # 0)
RDiv(a, b) == Sgn(a) * Sgn(b) * ((2 * Abs(a) + Abs(b)) \div (2 * Abs(b)))
FMul(a, b) == RDiv(a * b, One)
FDiv(a, b) == RDiv(a * One, b)

\* Newton's iteration downwards from x >= sqrt(n), n > 0: floor(sqrt(n))
RECURSIVE SqrtNewton(_, _)
SqrtNewton(n, x) ==
    LET y == (x + n \div x) \div 2
    IN IF y >= x THEN x ELSE SqrtNewton(n, y)
FloorSqrt(n) ==
    IF n = 0 THEN 0
    ELSE IF n < 4096 THEN SqrtNewton(n, 64)
    ELSE IF n < 4000000 THEN SqrtNewton(n, 2000)
    ELSE SqrtNewton(n, 46341)
\* sqrt(n) rounded to the nearest integer, for 0 <= n < 2^31 (the square of
\* One is met most often)
ISqrt(n) ==
    IF n = One * One THEN One
    ELSE LET nearest(r) == IF n - r * r > r THEN r + 1 ELSE r
         IN nearest(FloorSqrt(n))
\* sqrt of the fixed-point value a
FSqrt(a) == ISqrt(a * One)

None == <<>>
Some(v) == <<v>>
IsSome(o) == o # <<>>
Unwrap(o) == o[1]

\* glam::Vec3
Vec3(x, y, z) == <<x, y, z>>
VZero == <<0, 0, 0>>
VAdd(a, b) == <<a[1] + b[1], a[2] + b[2], a[3] + b[3]>>
VSub(a, b) == <<a[1] - b[1], a[2] - b[2], a[3] - b[3]>>
VScale(a, s) == <<FMul(a[1], s), FMul(a[2], s), FMul(a[3], s)>>
VNeg(a) == <<-a[1], -a[2], -a[3]>>
Dot(a, b) == RDiv(a[1] * b[1] + a[2] * b[2] + a[3] * b[3], One)
Cross(a, b) ==
    << RDiv(a[2] * b[3] - a[3] * b[2], One),
       RDiv(a[3] * b[1] - a[1] * b[3], One),
       RDiv(a[1] * b[2] - a[2] * b[1], One) >>
Length(a) == ISqrt(a[1] * a[1] + a[2] * a[2] + a[3] * a[3])
LengthSquared(a) == Dot(a, a)
\* Vec3::normalize on a vector of non-zero length
Normalize(a) ==
    LET over(l) == <<RDiv(a[1] * One, l), RDiv(a[2] * One, l), RDiv(a[3] * One, l)>>
    IN over(Length(a))
\* Vec3::normalize_or_zero
NormalizeOrZero(a) == IF Length(a) > 0 THEN Normalize(a) ELSE VZero

(***************************************************************************)
(* glam::Quat: only what the program calls.                                *)
(***************************************************************************)
\* What f32 arithmetic yields for 0.0 * inf: every component of the
\* normalization of a zero quaternion.
NaN == 0 - 1000000000
IsNaN(a) == a = NaN
QIdentity == <<0, 0, 0, One>>
QNaN == <<NaN, NaN, NaN, NaN>>
VNaN == <<NaN, NaN, NaN>>
QLength(q) == ISqrt(q[1] * q[1] + q[2] * q[2] + q[3] * q[3] + q[4] * q[4])
\* Quat::normalize: q * (1 / |q|); a zero (or NaN) quaternion gives NaN.
QNormalize(q) ==
    IF IsNaN(q[1]) \/ QLength(q) = 0 THEN QNaN
    ELSE LET over(l) == <<RDiv(q[1] * One, l), RDiv(q[2] * One, l),
                          RDiv(q[3] * One, l), RDiv(q[4] * One, l)>>
         IN over(QLength(q))

\* |a| < 1.0e-6, the threshold of the ray tests
Tiny(a) == Abs(a) < One /\ Abs(a) * 1000000 < One

\* std::f32::consts
PI == 3142
TAU == 6283
FRAC_PI_2 == 1571
FRAC_PI_4 == 785

\* atan(a) for 0 <= a <= 1, to within 0.004
AtanUnit(a) == FMul(a, FRAC_PI_4) + FMul(FMul(273, a), One - a)
\* f32::atan2
FAtan2(y, x) ==
    IF x = 0 /\ y = 0 THEN 0
    ELSE LET ax == Abs(x)
             ay == Abs(y)
             r0 == IF ay <= ax THEN AtanUnit(FDiv(ay, ax))
                   ELSE FRAC_PI_2 - AtanUnit(FDiv(ax, ay))
             r1 == IF x < 0 THEN PI - r0 ELSE r0
         IN IF y < 0 THEN -r1 ELSE r1

\* the angle x brought into [-pi, pi]
RECURSIVE WrapAngle(_)
WrapAngle(x) ==
    IF x > PI THEN WrapAngle(x - TAU)
    ELSE IF x < -PI THEN WrapAngle(x + TAU)
    ELSE x
\* The series of sin, for an angle of h/20000 with |h/20000| <= pi/2, and
\* the cosine from sin^2 + cos^2 = 1, both in units of 1/10000.
SinSeries(h) ==
    LET x == h \div 2
        m(a, b) == RDiv(a * b, 10000)
        x2 == RDiv(h * h, 40000)
        t3 == RDiv(m(x, x2), 6)
        t5 == RDiv(m(t3, x2), 20)
        t7 == RDiv(m(t5, x2), 42)
        t9 == RDiv(m(t7, x2), 72)
    IN RDiv(h, 2) - t3 + t5 - t7 + t9
CosSeries(h) ==
    LET cos_for(sin) == ISqrt(Max(0, 100000000 - sin * sin))
    IN cos_for(SinSeries(h))
\* sin and cos of half the angle x, as Quat::from_axis_angle takes them
SinHalf(x) ==
    LET w == WrapAngle(x)
    IN RDiv(SinSeries(10 * w), 10)
CosHalf(x) ==
    LET w == WrapAngle(x)
    IN RDiv(CosSeries(10 * w), 10)
\* f32::sin and f32::cos
FSin(x) ==
    LET w == WrapAngle(x)
    IN IF w > FRAC_PI_2 THEN RDiv(SinSeries(20 * (PI - w)), 10)
       ELSE IF w < -FRAC_PI_2 THEN RDiv(SinSeries(20 * (-PI - w)), 10)
       ELSE RDiv(SinSeries(20 * w), 10)
FCos(x) ==
    LET w == WrapAngle(x)
    IN IF w > FRAC_PI_2 THEN -RDiv(CosSeries(20 * (PI - w)), 10)
       ELSE IF w < -FRAC_PI_2 THEN -RDiv(CosSeries(20 * (-PI - w)), 10)
       ELSE RDiv(CosSeries(20 * w), 10)
\* f32::asin on [-1, 1]
FAsin(s) == FAtan2(s, ISqrt(Max(0, One * One - s * s)))
to_radians(deg) == RDiv(deg * PI, 180 * One)
to_degrees(rad) == RDiv(rad * 180 * One, PI)

\* Quat * Quat
QMul(a, b) ==
    << RDiv(a[4] * b[1] + a[1] * b[4] + a[2] * b[3] - a[3] * b[2], One),
       RDiv(a[4] * b[2] - a[1] * b[3] + a[2] * b[4] + a[3] * b[1], One),
       RDiv(a[4] * b[3] + a[1] * b[2] - a[2] * b[1] + a[3] * b[4], One),
       RDiv(a[4] * b[4] - a[1] * b[1] - a[2] * b[2] - a[3] * b[3], One) >>
\* Quat::from_axis_angle for a unit axis
from_axis_angle(axis, angle) ==
    LET quat(s, c) == <<FMul(axis[1], s), FMul(axis[2], s), FMul(axis[3], s), c>>
    IN quat(SinHalf(angle), CosHalf(angle))
\* Quat * Vec3
QRotate(q, v) ==
    LET b == <<q[1], q[2], q[3]>>
        w == q[4]
        b2 == Dot(b, b)
    IN VAdd(VAdd(VScale(v, FMul(w, w) - b2), VScale(b, 2 * Dot(v, b))),
            VScale(Cross(b, v), 2 * w))
\* Quat::from_euler(EulerRot::XYZ, a, b, c)
from_euler_xyz(a, b, c) ==
    QMul(QMul(from_axis_angle(<<One, 0, 0>>, a), from_axis_angle(<<0, One, 0>>, b)),
         from_axis_angle(<<0, 0, One>>, c))
\* Quat::to_euler(EulerRot::XYZ)
to_euler_xyz(q) ==
    LET x == q[1]
        y == q[2]
        z == q[3]
        w == q[4]
        sq(a) == FMul(a, a)
    IN << FAtan2(-2 * (FMul(y, z) - FMul(w, x)), sq(w) - sq(x) - sq(y) + sq(z)),
          FAsin(Max(-One, Min(One, 2 * (FMul(x, z) + FMul(w, y))))),
          FAtan2(-2 * (FMul(x, y) - FMul(w, z)), sq(w) + sq(x) - sq(y) - sq(z)) >>

(***************************************************************************)
(* cad-core: Transform, ObjectKind, ModelObject, Model.                    *)
(***************************************************************************)
Transform(translation, rotation) ==
    [translation |-> translation, rotation |-> rotation]
Transform_default == Transform(<<0, 0, 0>>, <<0, 0, 0, One>>)

ObjectKind_Box(w, h, d) == [tag |-> "Box", a |-> w, b |-> h, c |-> d]
ObjectKind_Cylinder(r, h) == [tag |-> "Cylinder", a |-> r, b |-> h, c |-> 0]

Model_default == [objects |-> <<>>, next_id |-> 0]

\* iter().position(|obj| obj.id == id): the first index holding id
position(objects, id) ==
    LET hits == {i \in 1..Len(objects) : objects[i].id = id}
    IN IF hits = {} THEN None
       ELSE Some(CHOOSE i \in hits : \A j \in hits : i <= j)

Model_object(m, id) ==
    LET p == position(m.objects, id)
    IN IF IsSome(p) THEN Some(m.objects[Unwrap(p)]) ELSE None

Model_set_transform_all(m, id, transform) ==
    IF IsSome(position(m.objects, id))
    THEN [model |-> [m EXCEPT !.objects =
                        [i \in 1..Len(m.objects) |->
                            IF m.objects[i].id = id
                            THEN [m.objects[i] EXCEPT !.transform = transform]
                            ELSE m.objects[i]]],
          ret |-> TRUE]
    ELSE [model |-> m, ret |-> FALSE]

Model_set_transform(m, id, transform) ==
    LET p == position(m.objects, id)
    IN IF IsSome(p)
       THEN [model |-> [m EXCEPT !.objects[Unwrap(p)].transform = transform],
             ret |-> TRUE]
       ELSE [model |-> m, ret |-> FALSE]

\* u64::saturating_add(1) on an id whose largest value is IdMax
saturating_add_1(id) == IF id >= IdMax THEN IdMax ELSE id + 1

Model_add_object_front(m, kind) ==
    [model |-> [objects |-> <<[id |-> m.next_id, kind |-> kind,
                               transform |-> Transform_default]>> \o m.objects,
                next_id |-> saturating_add_1(m.next_id)],
     ret |-> m.next_id]

Model_add_object(m, kind) ==
    [model |-> [objects |-> Append(m.objects,
                                   [id |-> m.next_id, kind |-> kind,
                                    transform |-> Transform_default]),
                next_id |-> saturating_add_1(m.next_id)],
     ret |-> m.next_id]

Model_add_box(m, w, h, d) == Model_add_object(m, ObjectKind_Box(w, h, d))
Model_add_cylinder(m, r, h) == Model_add_object(m, ObjectKind_Cylinder(r, h))

(***************************************************************************)
(* cad-geom: TriMesh, Aabb, tessellation, GeomScene.                       *)
(***************************************************************************)
TriMesh_default == [positions |-> <<>>, normals |-> <<>>, indices |-> <<>>]
Aabb_default == [min |-> <<0, 0, 0>>, max |-> <<0, 0, 0>>]

\* glam Mat4::from_quat for a normalized quaternion: the three rotated axes
from_quat(q) ==
    IF IsNaN(q[1]) THEN <<VNaN, VNaN, VNaN>>
    ELSE LET x == q[1]
             y == q[2]
             z == q[3]
             w == q[4]
             xx == FMul(x, 2 * x)
             xy == FMul(x, 2 * y)
             xz == FMul(x, 2 * z)
             yy == FMul(y, 2 * y)
             yz == FMul(y, 2 * z)
             zz == FMul(z, 2 * z)
             wx == FMul(w, 2 * x)
             wy == FMul(w, 2 * y)
             wz == FMul(w, 2 * z)
         IN << <<One - (yy + zz), xy + wz, xz - wy>>,
               <<xy - wz, One - (xx + zz), yz + wx>>,
               <<xz + wy, yz - wx, One - (xx + yy)>> >>

\* Mat4::from_translation(t) * Mat4::from_quat(q.normalize())
transform_mat(transform) ==
    [axes |-> from_quat(QNormalize(transform.rotation)),
     w_axis |-> transform.translation]

\* Mat4::transform_vector3: the rotation part applied to v
transform_vector3(m, v) ==
    IF IsNaN(m.axes[1][1]) THEN VNaN
    ELSE [k \in 1..3 |->
            RDiv(m.axes[1][k] * v[1] + m.axes[2][k] * v[2] + m.axes[3][k] * v[3], One)]

\* Mat4::transform_point3: rotation, then translation
transform_point3(m, p) ==
    IF IsNaN(m.axes[1][1]) THEN VNaN
    ELSE VAdd(transform_vector3(m, p), m.w_axis)

\* a NaN length_squared fails the comparison, as every comparison with NaN does
append_normal(m, n) ==
    LET v == transform_vector3(m, n)
    IN IF ~IsNaN(v[1]) /\ Length(v) > 0 THEN Normalize(v) ELSE <<0, One, 0>>

Rebase(indices, base) == [k \in 1..Len(indices) |-> indices[k] + base]

append_transformed_no_rebase(self, other, m) ==
    [positions |-> self.positions \o
        [k \in 1..Len(other.positions) |-> transform_point3(m, other.positions[k])],
     normals |-> self.normals \o
        [k \in 1..Len(other.normals) |-> append_normal(m, other.normals[k])],
     indices |-> self.indices \o other.indices]

append_transformed(self, other, m) ==
    [positions |-> self.positions \o
        [k \in 1..Len(other.positions) |-> transform_point3(m, other.positions[k])],
     normals |-> self.normals \o
        [k \in 1..Len(other.normals) |-> append_normal(m, other.normals[k])],
     indices |-> self.indices \o Rebase(other.indices, Len(self.positions))]

\* truck's Solid, kept by what it was built from
make_box(w, h, d) == [shape |-> "box", a |-> w, b |-> h, c |-> d]
make_cylinder(r, h) == [shape |-> "cylinder", a |-> r, b |-> h, c |-> 0]

Quad(c0, c1, c2, c3) == << <<c0, c1, c2>>, <<c0, c2, c3>> >>

\* The triangles truck's triangulation gives for a box: two per face.
BoxTriangles(w, h, d) ==
    LET x == w \div 2
        y == h \div 2
        z == d \div 2
    IN  Quad(<<x, -y, -z>>, <<x, y, -z>>, <<x, y, z>>, <<x, -y, z>>)
     \o Quad(<<-x, -y, -z>>, <<-x, -y, z>>, <<-x, y, z>>, <<-x, y, -z>>)
     \o Quad(<<-x, y, -z>>, <<-x, y, z>>, <<x, y, z>>, <<x, y, -z>>)
     \o Quad(<<-x, -y, -z>>, <<x, -y, -z>>, <<x, -y, z>>, <<-x, -y, z>>)
     \o Quad(<<-x, -y, z>>, <<x, -y, z>>, <<x, y, z>>, <<-x, y, z>>)
     \o Quad(<<-x, -y, -z>>, <<-x, y, -z>>, <<x, y, -z>>, <<x, -y, -z>>)

\* The triangles of a cylinder swept about Y from (0, -h/2, r), at the
\* coarsest division of the circle: a prism on four points of it.
CylinderTriangles(r, h) ==
    LET y == h \div 2
        T == << <<0, y, r>>, <<r, y, 0>>, <<0, y, -r>>, <<-r, y, 0>> >>
        B == << <<0, -y, r>>, <<r, -y, 0>>, <<0, -y, -r>>, <<-r, -y, 0>> >>
        Side(i, j) == << <<B[i], B[j], T[j]>>, <<B[i], T[j], T[i]>> >>
    IN  Quad(T[1], T[2], T[3], T[4])
     \o Quad(B[4], B[3], B[2], B[1])
     \o Side(1, 2) \o Side(2, 3) \o Side(3, 4) \o Side(4, 1)

face_normal(p0, p1, p2) ==
    LET n == Cross(VSub(p1, p0), VSub(p2, p0))
    IN IF Length(n) > 0 THEN Normalize(n) ELSE <<0, One, 0>>

\* one vertex per triangle corner, indexed in order
polygon_to_trimesh(tris) ==
    [positions |-> [k \in 1..(3 * Len(tris)) |->
                        tris[((k - 1) \div 3) + 1][((k - 1) % 3) + 1]],
     normals |-> [k \in 1..(3 * Len(tris)) |->
                        LET t == tris[((k - 1) \div 3) + 1]
                        IN face_normal(t[1], t[2], t[3])],
     indices |-> [k \in 1..(3 * Len(tris)) |-> k - 1]]

tessellate_solid(solid, tolerance) ==
    polygon_to_trimesh(IF solid.shape = "box"
                       THEN BoxTriangles(solid.a, solid.b, solid.c)
                       ELSE CylinderTriangles(solid.a, solid.b))

RECURSIVE FoldMax(_, _, _)
FoldMax(seq, k, acc) ==
    IF k > Len(seq) THEN acc ELSE FoldMax(seq, k + 1, Max(acc, seq[k]))

mesh_bounds_radius(mesh) ==
    FoldMax([k \in 1..Len(mesh.positions) |-> Length(mesh.positions[k])], 1, 0)

mesh_bounds_aabb(mesh) ==
    LET P == mesh.positions
        K == 1..Len(P)
        Lo(c) == CHOOSE v \in {P[k][c] : k \in K} : \A k \in K : v <= P[k][c]
        Hi(c) == CHOOSE v \in {P[k][c] : k \in K} : \A k \in K : v >= P[k][c]
    IN IF Len(P) = 0 THEN Aabb_default
       ELSE [min |-> <<Lo(1), Lo(2), Lo(3)>>, max |-> <<Hi(1), Hi(2), Hi(3)>>]

Ok(v) == [ok |-> TRUE, val |-> v]
Err(e) == [ok |-> FALSE, err |-> e]

GeomScene_new ==
    [model |-> Model_default, solids |-> <<>>, local_meshes |-> <<>>,
     bounds_radius |-> <<>>, local_aabbs |-> <<>>, mesh_cache |-> None,
     tolerance |-> One \div 100]

object_transform(s, id) ==
    LET o == Model_object(s.model, id)
    IN IF IsSome(o) THEN Some(Unwrap(o).transform) ELSE None

\* Vec::get(idx): idx is 1-based here
Get(seq, idx) == IF idx \in 1..Len(seq) THEN Some(seq[idx]) ELSE None

bounds_radius(s, id) ==
    LET p == position(s.model.objects, id)
    IN IF IsSome(p) THEN Get(s.bounds_radius, Unwrap(p)) ELSE None

local_aabb(s, id) ==
    LET p == position(s.model.objects, id)
    IN IF IsSome(p) THEN Get(s.local_aabbs, Unwrap(p)) ELSE None

set_object_transform_keep_cache(s, id, transform) ==
    LET r == Model_set_transform(s.model, id, transform)
    IN IF r.ret THEN [scene |-> [s EXCEPT !.model = r.model], ret |-> TRUE]
       ELSE [scene |-> s, ret |-> FALSE]

set_object_transform_always_invalidate(s, id, transform) ==
    LET r == Model_set_transform(s.model, id, transform)
    IN [scene |-> [s EXCEPT !.model = r.model, !.mesh_cache = None], ret |-> r.ret]

set_object_transform(s, id, transform) ==
    LET r == Model_set_transform(s.model, id, transform)
    IN IF r.ret
       THEN [scene |-> [s EXCEPT !.model = r.model, !.mesh_cache = None],
             ret |-> TRUE]
       ELSE [scene |-> s, ret |-> FALSE]

\* the pushes and the invalidation add_box and add_cylinder share
push_solid_keep_cache(s, added, solid) ==
    LET m == tessellate_solid(solid, s.tolerance)
    IN [scene |-> [s EXCEPT !.model = added.model,
                            !.solids = Append(@, solid),
                            !.local_meshes = Append(@, m),
                            !.bounds_radius = Append(@, mesh_bounds_radius(m)),
                            !.local_aabbs = Append(@, mesh_bounds_aabb(m))],
        ret |-> added.ret]

\* a push that puts the new bounding radius in front of the others
push_solid_radius_front(s, added, solid) ==
    LET m == tessellate_solid(solid, s.tolerance)
    IN [scene |-> [s EXCEPT !.model = added.model,
                            !.solids = Append(@, solid),
                            !.local_meshes = Append(@, m),
                            !.bounds_radius = <<mesh_bounds_radius(m)>> \o @,
                            !.local_aabbs = Append(@, mesh_bounds_aabb(m)),
                            !.mesh_cache = None],
        ret |-> added.ret]

push_solid(s, added, solid) ==
    LET m == tessellate_solid(solid, s.tolerance)
    IN [scene |-> [s EXCEPT !.model = added.model,
                            !.solids = Append(@, solid),
                            !.local_meshes = Append(@, m),
                            !.bounds_radius = Append(@, mesh_bounds_radius(m)),
                            !.local_aabbs = Append(@, mesh_bounds_aabb(m)),
                            !.mesh_cache = None],
        ret |-> added.ret]

add_box(s, w, h, d) == push_solid(s, Model_add_box(s.model, w, h, d), make_box(w, h, d))

add_cylinder(s, r, h) == push_solid(s, Model_add_cylinder(s.model, r, h), make_cylinder(r, h))

\* the loop of mesh(): objects 1..k appended in order, each with its own
\* local mesh (when there is one) and its current transform
RECURSIVE combine(_, _)
combine(s, k) ==
    IF k = 0 THEN TriMesh_default
    ELSE LET before == combine(s, k - 1)
             local == Get(s.local_meshes, k)
         IN IF IsSome(local)
            THEN append_transformed(before, Unwrap(local),
                                    transform_mat(s.model.objects[k].transform))
            ELSE before

mesh_no_error(s) ==
    IF IsSome(s.mesh_cache)
    THEN [scene |-> s, ret |-> Ok(Unwrap(s.mesh_cache)), rebuilt |-> FALSE]
    ELSE LET combined == combine(s, Len(s.model.objects))
         IN [scene |-> [s EXCEPT !.mesh_cache = Some(combined)],
             ret |-> Ok(combined), rebuilt |-> TRUE]

mesh_no_store(s) ==
    IF Len(s.solids) = 0
    THEN [scene |-> s, ret |-> Err("EmptyScene"), rebuilt |-> FALSE]
    ELSE [scene |-> s, ret |-> Ok(combine(s, Len(s.model.objects))), rebuilt |-> TRUE]

\* rebuilt tells which path answered: the cache (FALSE) or the loop (TRUE)
mesh(s) ==
    IF Len(s.solids) = 0
    THEN [scene |-> s, ret |-> Err("EmptyScene"), rebuilt |-> FALSE]
    ELSE IF IsSome(s.mesh_cache)
    THEN [scene |-> s, ret |-> Ok(Unwrap(s.mesh_cache)), rebuilt |-> FALSE]
    ELSE LET combined == combine(s, Len(s.model.objects))
         IN [scene |-> [s EXCEPT !.mesh_cache = Some(combined)],
             ret |-> Ok(combined), rebuilt |-> TRUE]

(***************************************************************************)
(* cad-web: the editor's geometry (picking, gizmo hit test, drag updates).  *)
(* Thresholds below the resolution of One (1.0e-6 and smaller) compare      *)
(* against zero.                                                            *)
(***************************************************************************)
quat_from_transform(transform) == QNormalize(transform.rotation)

\* TransformUi: translation plus Euler angles in degrees
TransformUi(tx, ty, tz, rx_deg, ry_deg, rz_deg) ==
    [tx |-> tx, ty |-> ty, tz |-> tz,
     rx_deg |-> rx_deg, ry_deg |-> ry_deg, rz_deg |-> rz_deg]
TransformUi_default == TransformUi(0, 0, 0, 0, 0, 0)
TransformUi_from_transform(transform) ==
    LET ui(e) == TransformUi(transform.translation[1], transform.translation[2],
                             transform.translation[3],
                             to_degrees(e[1]), to_degrees(e[2]), to_degrees(e[3]))
    IN ui(to_euler_xyz(quat_from_transform(transform)))
TransformUi_to_transform(ui) ==
    Transform(<<ui.tx, ui.ty, ui.tz>>,
              QNormalize(from_euler_xyz(to_radians(ui.rx_deg), to_radians(ui.ry_deg),
                                        to_radians(ui.rz_deg))))

\* DragMode::Translate and DragMode::Rotate(axis)
DragMode_Translate == [tag |-> "Translate", axis |-> "-"]
DragMode_Rotate(axis) == [tag |-> "Rotate", axis |-> axis]

gizmo_dimensions(base_r, dist_to_obj) ==
    LET d == Max(dist_to_obj, 1)
        axis_len == Max(FMul(d, 120), FMul(base_r, 250))
    IN [axis_len |-> axis_len, ring_r |-> FMul(axis_len, 750)]

ray_sphere_intersect(ray_o, ray_d, center, radius) ==
    LET oc == VSub(ray_o, center)
        b == Dot(oc, ray_d)
        c == Dot(oc, oc) - FMul(radius, radius)
        disc == FMul(b, b) - c
        t == 0 - b - FSqrt(disc)
    IN IF disc < 0 THEN None
       ELSE IF t > 0 THEN Some(t) ELSE None

\* closest approach of the ray o + s*d (s >= 0) and the segment a..b:
\* the distance and the position along the segment
ray_segment_distance(ray_o, ray_d, a, b) ==
    LET u == ray_d
        v == VSub(b, a)
        w == VSub(ray_o, a)
        a_ == Dot(u, u)
        b_ == Dot(u, v)
        c_ == Dot(v, v)
        d_ == Dot(u, w)
        e_ == Dot(v, w)
        det == FMul(a_, c_) - FMul(b_, b_)
        proj == IF c_ > 0 THEN FDiv(e_, c_) ELSE 0
        s0 == IF det > 0 THEN FDiv(FMul(b_, e_) - FMul(c_, d_), det) ELSE 0
        t0 == IF det > 0 THEN FDiv(FMul(a_, e_) - FMul(b_, d_), det) ELSE proj
        s1 == IF t0 < 0 THEN FDiv(0 - d_, a_)
              ELSE IF t0 > One THEN FDiv(b_ - d_, a_) ELSE s0
        t1 == Max(0, Min(One, t0))
        s == Max(0, s1)
        t == IF s1 < 0 THEN Max(0, Min(One, proj)) ELSE t1
        p_ray == VAdd(ray_o, VScale(u, s))
        p_seg == VAdd(a, VScale(v, t))
    IN [dist |-> Length(VSub(p_ray, p_seg)), t_seg |-> FMul(t, Length(v))]

\* one round of the axis loop of hit_gizmo: the axis dir, at distance
\* r.dist from the ray, replaces the best so far when it is nearer
nearer_axis(r, dir, threshold, best) ==
    IF r.dist < threshold /\ (best = None \/ r.dist < Unwrap(best).dist)
    THEN Some([dist |-> r.dist, dir |-> dir, t_axis |-> r.t_seg])
    ELSE best

\* the axis loop of hit_gizmo: axes k..3 tried in order against the best so far
RECURSIVE best_axis_from(_, _, _, _, _, _, _, _)
best_axis_from(k, dirs, origin, axis_len, threshold, ray_o, ray_d, best) ==
    IF k > 3 THEN best
    ELSE best_axis_from(k + 1, dirs, origin, axis_len, threshold, ray_o, ray_d,
             nearer_axis(ray_segment_distance(ray_o, ray_d, origin,
                                              VAdd(origin, VScale(dirs[k], axis_len))),
                         dirs[k], threshold, best))

\* the ring loop of hit_gizmo: the first ring k..3 the ray meets near ring_r
RECURSIVE first_ring_from(_, _, _, _, _, _, _)
first_ring_from(k, rings, origin, ring_r, ring_threshold, ray_o, ray_d) ==
    IF k > 3 THEN None
    ELSE LET n == rings[k].n
             denom == Dot(n, ray_d)
             t_hit == FDiv(Dot(n, VSub(origin, ray_o)), denom)
             p == VAdd(ray_o, VScale(ray_d, t_hit))
             r == Length(VSub(p, origin))
             vdir == NormalizeOrZero(VSub(p, origin))
             rest == first_ring_from(k + 1, rings, origin, ring_r, ring_threshold,
                                     ray_o, ray_d)
         IN IF Tiny(denom) THEN rest
            ELSE IF t_hit <= 0 THEN rest
            ELSE IF Abs(r - ring_r) <= ring_threshold
            THEN Some([mode |-> DragMode_Rotate(rings[k].axis), start_axis_t |-> 0,
                       plane_n |-> n, axis_dir_world |-> n,
                       u |-> rings[k].u, v |-> rings[k].v,
                       ang0 |-> FAtan2(Dot(vdir, rings[k].v), Dot(vdir, rings[k].u))])
            ELSE rest

\* an end of hit_gizmo that asks the rings first and the axes after them
hit_gizmo_result_rings_first(best, origin, view_dir, rings, ring_r, ring_threshold, ray_o, ray_d) ==
    LET dir == Unwrap(best).dir
        pn0 == Cross(Cross(dir, view_dir), dir)
        plane_n == IF LengthSquared(pn0) = 0
                   THEN Cross(Cross(dir, <<0, One, 0>>), dir) ELSE pn0
        hit_point == VAdd(origin, VScale(dir, Unwrap(best).t_axis))
        or_axis(ring) ==
            IF IsSome(ring) THEN ring
            ELSE IF IsSome(best)
            THEN Some([mode |-> DragMode_Translate,
                       start_axis_t |-> Dot(dir, VSub(hit_point, origin)),
                       plane_n |-> NormalizeOrZero(plane_n), axis_dir_world |-> dir,
                       u |-> VZero, v |-> VZero, ang0 |-> 0])
            ELSE None
    IN or_axis(first_ring_from(1, rings, origin, ring_r, ring_threshold, ray_o, ray_d))

\* the end of hit_gizmo: the axis found, with the drag plane facing the
\* camera, or else the first ring met
hit_gizmo_result(best, origin, view_dir, rings, ring_r, ring_threshold, ray_o, ray_d) ==
    LET dir == Unwrap(best).dir
        pn0 == Cross(Cross(dir, view_dir), dir)
        plane_n == IF LengthSquared(pn0) = 0
                   THEN Cross(Cross(dir, <<0, One, 0>>), dir) ELSE pn0
        hit_point == VAdd(origin, VScale(dir, Unwrap(best).t_axis))
    IN IF IsSome(best)
       THEN Some([mode |-> DragMode_Translate,
                  start_axis_t |-> Dot(dir, VSub(hit_point, origin)),
                  plane_n |-> NormalizeOrZero(plane_n), axis_dir_world |-> dir,
                  u |-> VZero, v |-> VZero, ang0 |-> 0])
       ELSE first_ring_from(1, rings, origin, ring_r, ring_threshold, ray_o, ray_d)

\* the hit tests of hit_gizmo for a gizmo at origin with the given axes
hit_gizmo_tests(origin, axis_x, axis_y, axis_z, view_dir, dist_to_obj, dims, ray_o, ray_d) ==
    LET threshold == Max(Max(FMul(dims.axis_len, 180), FMul(dist_to_obj, 15)), 50)
        ring_threshold == Max(Max(FMul(dims.ring_r, 200), FMul(dist_to_obj, 15)), 50)
    IN hit_gizmo_result(
           best_axis_from(1, <<axis_x, axis_y, axis_z>>, origin, dims.axis_len,
                          threshold, ray_o, ray_d, None),
           origin, view_dir,
           << [axis |-> "X", n |-> axis_x, u |-> axis_y, v |-> axis_z],
              [axis |-> "Y", n |-> axis_y, u |-> axis_z, v |-> axis_x],
              [axis |-> "Z", n |-> axis_z, u |-> axis_x, v |-> axis_y] >>,
           dims.ring_r, ring_threshold, ray_o, ray_d)

\* eye is what Renderer::camera_eye_target reports
hit_gizmo(s, eye, id, ray_o, ray_d) ==
    LET ot == object_transform(s, id)
        t == Unwrap(ot)
        origin == t.translation
        rot == quat_from_transform(t)
        br == bounds_radius(s, id)
        base_r == Max(IF IsSome(br) THEN Unwrap(br) ELSE One, 250)
        dist_to_obj == Max(Length(VSub(eye, origin)), 1)
    IN IF ot = None THEN None
       ELSE hit_gizmo_tests(origin,
                            Normalize(QRotate(rot, <<One, 0, 0>>)),
                            Normalize(QRotate(rot, <<0, One, 0>>)),
                            Normalize(QRotate(rot, <<0, 0, One>>)),
                            NormalizeOrZero(VSub(origin, eye)), dist_to_obj,
                            gizmo_dimensions(base_r, dist_to_obj), ray_o, ray_d)

\* a translate update that takes the axis position of the ray as the
\* distance to move, without taking off the position grabbed at the start
drag_translate_absolute(ds, ray_o, ray_d) ==
    LET denom == Dot(ds.plane_normal_world, ray_d)
        moved(t) ==
            LET p == VAdd(ray_o, VScale(ray_d, t))
                axis_t == Dot(ds.axis_dir_world, VSub(p, ds.start_origin_world))
            IN [ds.start_transform EXCEPT !.translation =
                   VAdd(ds.start_transform.translation,
                        VScale(ds.axis_dir_world, axis_t))]
    IN IF Tiny(denom) THEN None
       ELSE Some(moved(FDiv(Dot(ds.plane_normal_world,
                                VSub(ds.start_origin_world, ray_o)), denom)))

\* a translate update that answers a ray parallel to the drag plane with the
\* captured transform instead of skipping it
drag_translate_no_skip(ds, ray_o, ray_d) ==
    LET denom == Dot(ds.plane_normal_world, ray_d)
        moved(t) ==
            LET p == VAdd(ray_o, VScale(ray_d, t))
                axis_t == Dot(ds.axis_dir_world, VSub(p, ds.start_origin_world))
            IN [ds.start_transform EXCEPT !.translation =
                   VAdd(ds.start_transform.translation,
                        VScale(ds.axis_dir_world, axis_t - ds.start_axis_t))]
    IN IF Tiny(denom) THEN Some(ds.start_transform)
       ELSE Some(moved(FDiv(Dot(ds.plane_normal_world,
                                VSub(ds.start_origin_world, ray_o)), denom)))

drag_translate(ds, ray_o, ray_d) ==
    LET denom == Dot(ds.plane_normal_world, ray_d)
        t == FDiv(Dot(ds.plane_normal_world, VSub(ds.start_origin_world, ray_o)), denom)
        p == VAdd(ray_o, VScale(ray_d, t))
        axis_t == Dot(ds.axis_dir_world, VSub(p, ds.start_origin_world))
        delta == axis_t - ds.start_axis_t
        next == VAdd(ds.start_transform.translation, VScale(ds.axis_dir_world, delta))
    IN IF Tiny(denom) THEN None
       ELSE Some([ds.start_transform EXCEPT !.translation = next])

\* the angle drag_rotate turns by: the ring angle of the ray less the ring
\* angle at the start, brought back by a full turn when it passes pi
rotate_delta(angle, start_angle) ==
    LET wrapped(delta) == IF delta > PI THEN delta - TAU
                          ELSE IF delta < -PI THEN delta + TAU ELSE delta
    IN wrapped(angle - start_angle)

\* a rotate update that turns about the world axis: the delta rotation is
\* composed on the left of the start rotation
drag_rotate_world_axis(ds, axis, ray_o, ray_d) ==
    LET n == ds.plane_normal_world
        denom == Dot(n, ray_d)
        t == FDiv(Dot(n, VSub(ds.start_origin_world, ray_o)), denom)
        p == VAdd(ray_o, VScale(ray_d, t))
        angle_of(vdir) == FAtan2(Dot(vdir, ds.ring_v_world), Dot(vdir, ds.ring_u_world))
        start_q == quat_from_transform(ds.start_transform)
        axis_local == CASE axis = "X" -> <<One, 0, 0>>
                        [] axis = "Y" -> <<0, One, 0>>
                        [] axis = "Z" -> <<0, 0, One>>
        q_for(delta) == QNormalize(QMul(from_axis_angle(axis_local, delta), start_q))
        out(q) == [ds.start_transform EXCEPT !.rotation = q]
    IN IF Tiny(denom) THEN None
       ELSE IF t <= 0 THEN None
       ELSE Some(out(q_for(rotate_delta(
                angle_of(NormalizeOrZero(VSub(p, ds.start_origin_world))),
                ds.start_angle))))

drag_rotate(ds, axis, ray_o, ray_d) ==
    LET n == ds.plane_normal_world
        denom == Dot(n, ray_d)
        t == FDiv(Dot(n, VSub(ds.start_origin_world, ray_o)), denom)
        p == VAdd(ray_o, VScale(ray_d, t))
        angle_of(vdir) == FAtan2(Dot(vdir, ds.ring_v_world), Dot(vdir, ds.ring_u_world))
        start_q == quat_from_transform(ds.start_transform)
        axis_local == CASE axis = "X" -> <<One, 0, 0>>
                        [] axis = "Y" -> <<0, One, 0>>
                        [] axis = "Z" -> <<0, 0, One>>
        q_for(delta) == QNormalize(QMul(start_q, from_axis_angle(axis_local, delta)))
        out(q) == [ds.start_transform EXCEPT !.rotation = q]
    IN IF Tiny(denom) THEN None
       ELSE IF t <= 0 THEN None
       ELSE Some(out(q_for(rotate_delta(
                angle_of(NormalizeOrZero(VSub(p, ds.start_origin_world))),
                ds.start_angle))))

\* the loop of pick_object over objects k..n; best is the nearest hit so far
RECURSIVE pick_object_from(_, _, _, _, _)
pick_object_from(s, k, ray_o, ray_d, best) ==
    IF k > Len(s.model.objects) THEN best
    ELSE LET obj == s.model.objects[k]
             br == bounds_radius(s, obj.id)
             radius == Max(IF IsSome(br) THEN Unwrap(br) ELSE One \div 2, 50)
             h == ray_sphere_intersect(ray_o, ray_d, obj.transform.translation, radius)
             next == IF IsSome(h) /\ (best = None \/ Unwrap(h) < Unwrap(best).t)
                     THEN Some([t |-> Unwrap(h), id |-> obj.id])
                     ELSE best
         IN pick_object_from(s, k + 1, ray_o, ray_d, next)
pick_object(s, ray_o, ray_d) ==
    LET best == pick_object_from(s, 1, ray_o, ray_d, None)
    IN IF IsSome(best) THEN Some(Unwrap(best).id) ELSE None

\* Moller-Trumbore; the quotients by det are taken directly
ray_triangle_intersect(ray_o, ray_d, v0, v1, v2) ==
    LET e1 == VSub(v1, v0)
        e2 == VSub(v2, v0)
        pvec == Cross(ray_d, e2)
        det == Dot(e1, pvec)
        tvec == VSub(ray_o, v0)
        u == FDiv(Dot(tvec, pvec), det)
        qvec == Cross(tvec, e1)
        v == FDiv(Dot(ray_d, qvec), det)
        t == FDiv(Dot(e2, qvec), det)
    IN IF Tiny(det) THEN None
       ELSE IF ~(0 <= u /\ u <= One) THEN None
       ELSE IF v < 0 \/ u + v > One THEN None
       ELSE IF t > 0 THEN Some(t) ELSE None

\* the triangle loop of pick_surface for object idx: triangles k.. of its
\* local mesh against the best hit so far
RECURSIVE pick_surface_tris(_, _, _, _, _, _)
pick_surface_tris(s, idx, k, ray_o, ray_d, best) ==
    LET mesh_ == s.local_meshes[idx]
        obj == s.model.objects[idx]
    IN IF 3 * k > Len(mesh_.indices) THEN best
       ELSE LET i0 == mesh_.indices[3 * k - 2] + 1
                i1 == mesh_.indices[3 * k - 1] + 1
                i2 == mesh_.indices[3 * k] + 1
                m == transform_mat(obj.transform)
                rotation == QNormalize(obj.transform.rotation)
                p0 == transform_point3(m, mesh_.positions[i0])
                p1 == transform_point3(m, mesh_.positions[i1])
                p2 == transform_point3(m, mesh_.positions[i2])
                t == ray_triangle_intersect(ray_o, ray_d, p0, p1, p2)
                n_local == LET sum == VAdd(VAdd(mesh_.normals[i0], mesh_.normals[i1]),
                                           mesh_.normals[i2])
                           IN <<RDiv(sum[1], 3), RDiv(sum[2], 3), RDiv(sum[3], 3)>>
                hit == [object_id |-> obj.id,
                        point |-> VAdd(ray_o, VScale(ray_d, Unwrap(t))),
                        normal |-> NormalizeOrZero(QRotate(rotation, n_local)),
                        distance |-> Unwrap(t)]
                next == IF t = None THEN best
                        ELSE IF IsSome(best) /\ Unwrap(t) >= Unwrap(best).distance THEN best
                        ELSE Some(hit)
            IN pick_surface_tris(s, idx, k + 1, ray_o, ray_d, next)

RECURSIVE pick_surface_objs(_, _, _, _, _)
pick_surface_objs(s, idx, ray_o, ray_d, best) ==
    IF idx > Len(s.model.objects) THEN best
    ELSE pick_surface_objs(s, idx + 1, ray_o, ray_d,
             IF idx <= Len(s.local_meshes)
             THEN pick_surface_tris(s, idx, 1, ray_o, ray_d, best)
             ELSE best)

pick_surface(s, ray_origin, ray_dir) ==
    LET ray_d == NormalizeOrZero(ray_dir)
    IN IF LengthSquared(ray_d) = 0 THEN None
       ELSE pick_surface_objs(s, 1, ray_origin, ray_d, None)

DragState(id, hit, start_transform) ==
    [object_id |-> id, mode |-> hit.mode, start_transform |-> start_transform,
     start_origin_world |-> start_transform.translation,
     axis_dir_world |-> hit.axis_dir_world, plane_normal_world |-> hit.plane_n,
     start_axis_t |-> hit.start_axis_t, ring_u_world |-> hit.u,
     ring_v_world |-> hit.v, start_angle |-> hit.ang0]

\* Renderer::set_mesh on the renderer, when there is one
set_mesh(r, m) == IF IsSome(r) THEN Some([Unwrap(r) EXCEPT !.mesh = m]) ELSE r

\* update_mesh: read the combined mesh and hand it to the renderer
update_mesh(s, r) ==
    LET shown(m) == [scene |-> m.scene, read |-> m.ret,
                     renderer |-> IF m.ret.ok THEN set_mesh(r, m.ret.val) ELSE r]
    IN shown(mesh(s))

\* an apply_transform that stores the transform into every object
apply_transform_every_object(s, r, id, transform) ==
    update_mesh([s EXCEPT !.model.objects =
                     [k \in 1..Len(s.model.objects) |->
                         [s.model.objects[k] EXCEPT !.transform = transform]],
                          !.mesh_cache = None], r)

\* an apply_transform that refreshes the renderer's mesh without storing the
\* transform
apply_transform_refresh_only(s, r, id, transform) ==
    update_mesh(s, r)

\* apply_transform: the result of set_object_transform is dropped
apply_transform(s, r, id, transform) ==
    update_mesh(set_object_transform(s, id, transform).scene, r)

\* what the drag handler computes for its session and the event's ray
drag_update(ds, ray_o, ray_d) ==
    IF ds.mode.tag = "Translate" THEN drag_translate(ds, ray_o, ray_d)
    ELSE drag_rotate(ds, ds.mode.axis, ray_o, ray_d)

(***************************************************************************)
(* cad-render: the orbit camera of the Renderer.                           *)
(***************************************************************************)
Clamp(x, lo, hi) == Max(lo, Min(x, hi))

\* Camera::new, without the projection parameters
Camera_new ==
    [target |-> VZero,
     radius |-> 4 * One,
     rotation |-> QMul(from_axis_angle(<<0, One, 0>>, 600),
                       from_axis_angle(<<One, 0, 0>>, 400))]

\* a zoom that does not clamp the distance
Camera_zoom_unclamped(c, delta) ==
    LET zoom == IF IsNaN(delta) THEN 50 ELSE Max(One + FMul(delta, 1), 50)
    IN [c EXCEPT !.radius = FMul(c.radius, zoom)]

\* Camera::zoom; f32::max answers 0.05 to a NaN factor
Camera_zoom(c, delta) ==
    LET zoom == IF IsNaN(delta) THEN 50 ELSE Max(One + FMul(delta, 1), 50)
    IN [c EXCEPT !.radius = Clamp(FMul(c.radius, zoom), 200, 200 * One)]

\* Camera::pan
Camera_pan(c, dx, dy) ==
    LET right == Normalize(QRotate(c.rotation, <<One, 0, 0>>))
        up == Normalize(QRotate(c.rotation, <<0, One, 0>>))
        moved(scale) ==
            VScale(VAdd(VScale(right, dx), VScale(up, dy)), scale)
    IN [c EXCEPT !.target = VAdd(c.target, moved(RDiv(c.radius * 25, 10000)))]

\* f32::acos on [-1, 1]
FAcos(x) == FRAC_PI_2 - FAsin(x)

\* arcball_vector
arcball_vector(x, y, width, height) ==
    LET on_ball(nx, ny, len2) ==
            IF len2 <= One THEN <<nx, ny, FSqrt(One - len2)>>
            ELSE <<FDiv(nx, FSqrt(len2)), FDiv(ny, FSqrt(len2)), 0>>
        at(nx, ny) == on_ball(nx, ny, FMul(nx, nx) + FMul(ny, ny))
    IN at(FDiv(2 * x - width, width), FDiv(height - 2 * y, height))

\* Quat::from_mat3(&Mat3::from_cols(x, y, z))
from_mat3(x, y, z) ==
    LET quat(four, a, b, c, k) ==
            LET inv4(root) == <<RDiv(a * 500, root), RDiv(b * 500, root),
                                RDiv(c * 500, root), RDiv(four * 500, root)>>
                placed(v) == IF k = 1 THEN <<v[4], v[1], v[2], v[3]>>
                             ELSE IF k = 2 THEN <<v[1], v[4], v[2], v[3]>>
                             ELSE IF k = 3 THEN <<v[1], v[2], v[4], v[3]>>
                             ELSE <<v[1], v[2], v[3], v[4]>>
            IN placed(inv4(FSqrt(four)))
    IN IF z[3] <= 0
       THEN IF y[2] - x[1] <= 0
            THEN quat(One - z[3] - (y[2] - x[1]),
                      x[2] + y[1], x[3] + z[1], y[3] - z[2], 1)
            ELSE quat(One - z[3] + (y[2] - x[1]),
                      x[2] + y[1], y[3] + z[2], z[1] - x[3], 2)
       ELSE IF y[2] + x[1] <= 0
            THEN quat(One + z[3] - (y[2] + x[1]),
                      x[3] + z[1], y[3] + z[2], x[2] - y[1], 3)
            ELSE quat(One + z[3] + (y[2] + x[1]),
                      y[3] - z[2], z[1] - x[3], x[2] - y[1], 4)

\* Camera::constrain_up
Camera_constrain_up(c) ==
    LET back == Normalize(QRotate(c.rotation, <<0, 0, One>>))
        right0 == Cross(<<0, One, 0>>, back)
        right == IF Tiny(LengthSquared(right0))
                 THEN Normalize(QRotate(c.rotation, <<One, 0, 0>>))
                 ELSE Normalize(right0)
        basis(r, up) ==
            IF Dot(up, <<0, One, 0>>) < 0
            THEN QNormalize(from_mat3(VNeg(r), VNeg(up), back))
            ELSE QNormalize(from_mat3(r, up, back))
    IN [c EXCEPT !.rotation = basis(right, Normalize(Cross(back, right)))]

\* Camera::orbit_arcball
Camera_orbit_arcball(c, prev, curr, width, height) ==
    LET turned(v0, v1) ==
            LET about(axis) ==
                    IF Length(axis) = 0 THEN c
                    ELSE Camera_constrain_up(
                            [c EXCEPT !.rotation =
                                QNormalize(QMul(
                                    from_axis_angle(Normalize(axis),
                                        FAcos(Clamp(Dot(v0, v1), 0 - One, One))),
                                    c.rotation))])
            IN about(Cross(v1, v0))
    IN turned(arcball_vector(prev[1], prev[2], Max(width, One), Max(height, One)),
              arcball_vector(curr[1], curr[2], Max(width, One), Max(height, One)))

\* Renderer::set_camera_rotation and Renderer::set_camera_view: the camera's
\* orientation, or its target, orientation and distance, replaced
set_camera_rotation(r, rotation) ==
    [r EXCEPT !.camera.rotation = rotation]
set_camera_view(r, target, rotation, radius) ==
    [r EXCEPT !.camera = [target |-> target, radius |-> radius, rotation |-> rotation]]

\* snap_camera_rotation
snap_camera_rotation(current_rot, dir_world, up_hint) ==
    LET dir == NormalizeOrZero(dir_world)
        off(v) == VSub(v, VScale(dir, Dot(v, dir)))
        alt == IF Abs(Dot(dir, <<0, 0, One>>)) < 900 THEN <<0, 0, One>>
               ELSE <<0, One, 0>>
        up1 == off(NormalizeOrZero(QRotate(current_rot, <<0, One, 0>>)))
        up2 == IF Tiny(LengthSquared(up1)) THEN off(up_hint) ELSE up1
        up3 == IF Tiny(LengthSquared(up2)) THEN off(alt) ELSE up2
        framed(right0) ==
            LET with(right) ==
                    QNormalize(from_mat3(right, NormalizeOrZero(Cross(dir, right)), dir))
            IN with(NormalizeOrZero(IF Tiny(LengthSquared(right0)) THEN <<One, 0, 0>>
                                    ELSE right0))
    IN framed(Cross(NormalizeOrZero(up3), dir))

\* ViewCubeFace::snap_vectors for a face of the given normal
snap_vectors(normal) ==
    <<normal, IF Abs(Dot(normal, <<0, 0, One>>)) < 900 THEN <<0, 0, One>>
              ELSE <<0, One, 0>>>>

\* Quat::slerp
QSlerp(a, b, s) ==
    LET QDot(p, q) == RDiv(p[1] * q[1] + p[2] * q[2] + p[3] * q[3] + p[4] * q[4], One)
        blend(e, s1, s2, over) ==
            [k \in 1..4 |-> FDiv(FMul(a[k], s1) + FMul(e[k], s2), over)]
        toward(e, dot) ==
            IF dot >= One
            THEN QNormalize([k \in 1..4 |-> a[k] + FMul(e[k] - a[k], s)])
            ELSE blend(e, FSin(FMul(FAcos(dot), One - s)), FSin(FMul(FAcos(dot), s)),
                       FSin(FAcos(dot)))
    IN IF QDot(a, b) < 0 THEN toward([k \in 1..4 |-> 0 - b[k]], 0 - QDot(a, b))
       ELSE toward(b, QDot(a, b))

\* base_sketch_plane, by the plane's normal and v
SketchPlane(origin, normal, v) == [origin |-> origin, normal |-> normal, v |-> v]
BaseSketchPlanes ==
    { SketchPlane(VZero, <<0, 0, One>>, <<0, One, 0>>),
      SketchPlane(VZero, <<One, 0, 0>>, <<0, 0, One>>) }

\* What js_sys::Date::now() returned at the time origin of the page, in
\* milliseconds: the origin of the timestamps the frame callbacks get. Any
\* day of this century is a larger number; this one behaves as they do.
TimeOrigin == 1000000000
duration_ms == 520

\* animate_camera_to_sketch_plane up to the callback: what the callback
\* keeps of the camera c and the plane, started now milliseconds after
\* the time origin
animation(c, plane, now) ==
    [start_target |-> c.target,
     start_radius |-> c.radius,
     start_rot |-> QNormalize(c.rotation),
     end_target |-> plane.origin,
     end_rot |-> snap_camera_rotation(QNormalize(c.rotation), plane.normal, plane.v),
     end_radius |-> Clamp(FMul(c.radius, 580), One, 30 * One),
     start_ms |-> TimeOrigin + now]

\* the callback's t for the frame timestamp time
animation_t(anim, time) ==
    RDiv(Clamp(time - anim.start_ms, 0, duration_ms) * One, duration_ms)

\* the callback of animate_camera_to_sketch_plane on the renderer r
animation_frame(r, anim, time) ==
    LET eased(ease) ==
            set_camera_view(r,
                VAdd(anim.start_target,
                     VScale(VSub(anim.end_target, anim.start_target), ease)),
                QNormalize(QSlerp(anim.start_rot, anim.end_rot, ease)),
                anim.start_radius + FMul(anim.end_radius - anim.start_radius, ease))
        at(t) == IF t < One \div 2 THEN eased(FMul(4 * t, FMul(t, t)))
                 ELSE eased(One - RDiv(FMul(2 * One - 2 * t,
                                            FMul(2 * One - 2 * t, 2 * One - 2 * t)), 2))
    IN at(animation_t(anim, time))

\* the callbacks the window holds, run in the order of their requests
RECURSIVE run_frame(_, _, _, _)
run_frame(r, anims, k, time) ==
    IF k > Len(anims) THEN r
    ELSE run_frame(animation_frame(r, anims[k], time), anims, k + 1, time)

(***************************************************************************)
(* The scene under its public operations, called in any order.             *)
(*   scene      the GeomScene                                              *)
(*   ret        the last call: its name, arguments and return value        *)
(*   last_read  the mesh the last successful mesh() returned, None once an *)
(*              add or a successful set_object_transform followed it       *)
(* and the state of the editor around it (cad-web, App):                   *)
(*   renderer            the Renderer once it is initialised, with the     *)
(*                       mesh it was last given                            *)
(*   tool_mode           the EditorTool                                    *)
(*   selected_id         the selected object, or None                      *)
(*   baseline_transform  the transform the panel's Cancel reverts to       *)
(*   transform_ui        the values the transform panel shows              *)
(*   drag_state          the drag session, or None                         *)
(*   sessions, edits     drag sessions started and panel events so far     *)
(* and of the camera's view-snap animations:                               *)
(*   raf            the animation callbacks the window holds for its next  *)
(*                  frame, in the order they were requested                *)
(*   camera_events  wheel, pan, orbit and snap events so far               *)
(***************************************************************************)
VARIABLES scene, ret, last_read, renderer, tool_mode, selected_id, baseline_transform, transform_ui, drag_state, sessions, edits, raf, camera_events, server

editor_vars ==
    <<renderer, tool_mode, selected_id, baseline_transform, transform_ui, drag_state,
      sessions, edits>>
camera_vars == <<raf, camera_events>>
vars == <<scene, ret, last_read, editor_vars, camera_vars, server>>

\* cad-server: the state main sets up, before any connection.  connections
\* are numbered; each has the handler's position (pc), the job id it holds
\* between its two sends, the out channel and what the send task has written
\* to the socket.
MaxConnections == 2
MaxJobs == 2
MaxLogs == 1
Conns == 1..MaxConnections
job_capacity == 64
out_capacity == 32
ServerInit ==
    [next_job_id |-> 1, job_queue |-> <<>>, worker |-> None, logs |-> 0,
     conns |-> [c \in Conns |->
                   [pc |-> "closed", job_id |-> 0, out |-> <<>>, delivered |-> <<>>]]]

\* Arguments the calls are tried with.
Ids == 0..IdMax
QuarterTurnY == <<0, 707, 0, 707>>
TransformInputs ==
    { Transform_default, Transform(<<2 * One, 0, 0 - One>>, QuarterTurnY) }

Init ==
    /\ scene = GeomScene_new
    /\ ret = [op |-> "new"]
    /\ last_read = None
    /\ renderer = None
    /\ tool_mode = "None"
    /\ selected_id = None
    /\ baseline_transform = None
    /\ transform_ui = TransformUi_default
    /\ drag_state = None
    /\ sessions = 0
    /\ edits = 0
    /\ raf = <<>>
    /\ camera_events = 0
    /\ server = ServerInit

CallAddBox ==
    /\ Len(scene.model.objects) < MaxObjects
    /\ LET r == add_box(scene, One, One, One)
       IN /\ scene' = r.scene
          /\ ret' = [op |-> "add", val |-> r.ret]
    /\ last_read' = None
    /\ UNCHANGED <<editor_vars, camera_vars, server>>

CallAddCylinder ==
    /\ Len(scene.model.objects) < MaxObjects
    /\ LET r == add_cylinder(scene, One \div 2, (3 * One) \div 2)
       IN /\ scene' = r.scene
          /\ ret' = [op |-> "add", val |-> r.ret]
    /\ last_read' = None
    /\ UNCHANGED <<editor_vars, camera_vars, server>>

CallSetObjectTransform ==
    \E id \in Ids, t \in TransformInputs :
        LET r == set_object_transform(scene, id, t)
        IN /\ scene' = r.scene
           /\ ret' = [op |-> "set_object_transform", id |-> id, t |-> t, val |-> r.ret]
           /\ last_read' = IF r.ret THEN None ELSE last_read
           /\ UNCHANGED <<editor_vars, camera_vars, server>>

CallMesh ==
    LET r == mesh(scene)
    IN /\ scene' = r.scene
       /\ ret' = [op |-> "mesh", val |-> r.ret, rebuilt |-> r.rebuilt]
       /\ last_read' = IF r.ret.ok THEN Some(r.ret.val) ELSE last_read
       /\ UNCHANGED <<editor_vars, camera_vars, server>>

CallLookup ==
    \E id \in Ids :
        /\ ret' = [op |-> "lookup", id |-> id,
                   object_transform |-> object_transform(scene, id),
                   bounds_radius |-> bounds_radius(scene, id),
                   local_aabb |-> local_aabb(scene, id)]
        /\ UNCHANGED <<scene, last_read, editor_vars, camera_vars, server>>

Next ==
    \/ CallAddBox
    \/ CallAddCylinder
    \/ CallSetObjectTransform
    \/ CallMesh
    \/ CallLookup

Spec == Init /\ [][Next]_vars

(***************************************************************************)
(* The editor: the handlers of App and attach_editor_controls, run in any   *)
(* order on the same scene; ret and last_read belong to the direct calls     *)
(* above and stay as they are.                                              *)
(* Renderer::screen_ray and Renderer::camera_eye_target depend on the       *)
(* camera and the cursor, which the user moves freely: every pointer event  *)
(* draws them from Shots.  The sketch capture state (plane, segments,       *)
(* anchor, cursor) and the overlay lines are left out.                      *)
(***************************************************************************)
FrontShot(x, y) ==
    [eye |-> <<0, 0, 5 * One>>, ray_o |-> <<x, y, 5 * One>>, ray_d |-> <<0, 0, -One>>]
SideShot(y, z) ==
    [eye |-> <<5 * One, 0, 0>>, ray_o |-> <<5 * One, y, z>>, ray_d |-> <<-One, 0, 0>>]
Shots ==
    { FrontShot(0, 0), FrontShot(-(One \div 2), 0), FrontShot(2 * One, 0),
      SideShot(0, One \div 2) }
\* MouseEvent.button: 0 is the left button
Buttons == {0, 2}
Keys == {"m", "Escape", "a"}
\* a field of the transform panel and the number typed into it
PanelInputs == { <<"tx", One \div 2>>, <<"rz_deg", 90 * One>> }

\* schedule_renderer_init, once the canvas is there
RendererInit ==
    /\ renderer = None
    /\ renderer' = Some([mesh |-> TriMesh_default, camera |-> Camera_new])
    /\ UNCHANGED <<scene, ret, last_read, camera_vars, server, tool_mode, selected_id, baseline_transform,
                   transform_ui, drag_state, sessions, edits>>

\* add_box_action and add_cylinder_action, after the scene's add returned id
AfterAdd(added) ==
    LET u == update_mesh(added.scene, renderer)
        id == added.ret
        t == object_transform(u.scene, id)
    IN /\ scene' = u.scene
       /\ renderer' = u.renderer
       /\ selected_id' = Some(id)
       /\ baseline_transform' = IF IsSome(t) THEN t ELSE baseline_transform
       /\ transform_ui' = IF IsSome(t) THEN TransformUi_from_transform(Unwrap(t))
                          ELSE transform_ui
       /\ UNCHANGED <<ret, last_read, camera_vars, server, tool_mode, drag_state, sessions, edits>>

AddBoxAction ==
    /\ Len(scene.model.objects) < AppMaxObjects
    /\ AfterAdd(add_box(scene, One, One, One))

AddCylinderAction ==
    /\ Len(scene.model.objects) < AppMaxObjects
    /\ AfterAdd(add_cylinder(scene, One \div 2, (3 * One) \div 2))

\* a tool change that also drops the drag session
SetToolMode_ends_drag(mode) ==
    /\ tool_mode' = mode
    /\ drag_state' = None
    /\ UNCHANGED <<scene, ret, last_read, camera_vars, server, renderer, selected_id, baseline_transform,
                   transform_ui, sessions, edits>>

\* set_tool_mode, the one write each tool button and sketch command makes to
\* the state kept here
SetToolMode(mode) ==
    /\ tool_mode' = mode
    /\ UNCHANGED <<scene, ret, last_read, camera_vars, server, renderer, selected_id, baseline_transform,
                   transform_ui, drag_state, sessions, edits>>

ActivateMoveTool == SetToolMode("Move")
ActivateSelectTool == SetToolMode("None")
StartSketchSelect == SetToolMode("SketchSelect")
FinishSketch == SetToolMode("None")
CancelSketch == SetToolMode("None")

\* the keydown listener of attach_editor_controls
KeyDown ==
    \E key \in Keys, repeat \in BOOLEAN, tag \in {"BODY", "INPUT"} :
        /\ IsSome(renderer)
        /\ tool_mode' = IF repeat \/ tag \in {"INPUT", "TEXTAREA"} THEN tool_mode
                        ELSE IF key \in {"m", "M"} THEN "Move"
                        ELSE IF key = "Escape" THEN "None"
                        ELSE tool_mode
        /\ UNCHANGED <<scene, ret, last_read, camera_vars, server, renderer, selected_id, baseline_transform,
                       transform_ui, drag_state, sessions, edits>>

\* a click on a body's row of the browser tree
BrowserSelect ==
    \E k \in 1..Len(scene.model.objects) :
        /\ selected_id' = Some(scene.model.objects[k].id)
        /\ UNCHANGED <<scene, ret, last_read, camera_vars, server, renderer, tool_mode, baseline_transform,
                       transform_ui, drag_state, sessions, edits>>

\* the input listener of a panel field, then on_change
PanelInput ==
    \E inp \in PanelInputs :
        LET ui == [transform_ui EXCEPT ![inp[1]] = inp[2]]
            a == apply_transform(scene, renderer, Unwrap(selected_id),
                                 TransformUi_to_transform(ui))
        IN /\ edits < MaxEdits
           /\ edits' = edits + 1
           /\ transform_ui' = ui
           /\ IF IsSome(selected_id)
              THEN /\ scene' = a.scene
                   /\ renderer' = a.renderer
              ELSE UNCHANGED <<scene, renderer>>
           /\ UNCHANGED <<ret, last_read, camera_vars, server, tool_mode, selected_id, baseline_transform,
                          drag_state, sessions>>

\* on_ok, from the OK button or Enter in a field
PanelOk ==
    /\ edits < MaxEdits
    /\ edits' = edits + 1
    /\ baseline_transform' = IF IsSome(selected_id)
                             THEN Some(TransformUi_to_transform(transform_ui))
                             ELSE baseline_transform
    /\ tool_mode' = "None"
    /\ UNCHANGED <<scene, ret, last_read, camera_vars, server, renderer, selected_id, transform_ui, drag_state,
                   sessions>>

\* on_cancel
PanelCancel ==
    /\ edits < MaxEdits
    /\ edits' = edits + 1
    /\ IF IsSome(selected_id) /\ IsSome(baseline_transform)
       THEN LET base == Unwrap(baseline_transform)
                a == apply_transform(scene, renderer, Unwrap(selected_id), base)
            IN /\ scene' = a.scene
               /\ renderer' = a.renderer
               /\ transform_ui' = TransformUi_from_transform(base)
               /\ tool_mode' = "None"
       ELSE UNCHANGED <<scene, renderer, transform_ui, tool_mode>>
    /\ UNCHANGED <<ret, last_read, camera_vars, server, selected_id, baseline_transform, drag_state,
                   sessions>>

\* what the mousedown listener finds on the gizmo: asked only for the Move
\* tool and a selected object
gizmo_hit(shot) ==
    IF tool_mode = "Move" /\ IsSome(selected_id)
    THEN hit_gizmo(scene, shot.eye, Unwrap(selected_id), shot.ray_o, shot.ray_d)
    ELSE None

\* selection by set_selected_id, with the baseline and the panel following
\* the picked object's transform when it has one
SelectPicked(id) ==
    LET t == object_transform(scene, id)
    IN /\ selected_id' = Some(id)
       /\ baseline_transform' = IF IsSome(t) THEN t ELSE baseline_transform
       /\ transform_ui' = IF IsSome(t) THEN TransformUi_from_transform(Unwrap(t))
                          ELSE transform_ui

\* a left-button mousedown that tries object picking first and the gizmo
\* only when no object is under the cursor
LeftDown_pick_first(shot) ==
    LET hit == gizmo_hit(shot)
        surface == pick_surface(scene, shot.ray_o, shot.ray_d)
        picked == pick_object(scene, shot.ray_o, shot.ray_d)
        id == Unwrap(selected_id)
        ot == object_transform(scene, id)
        start_transform == IF IsSome(ot) THEN Unwrap(ot) ELSE Transform_default
    IN IF tool_mode = "SketchSelect"
       THEN /\ IF IsSome(surface)
               THEN /\ SelectPicked(Unwrap(surface).object_id)
                    /\ tool_mode' = "SketchDraw"
               ELSE UNCHANGED <<tool_mode, selected_id, baseline_transform, transform_ui>>
            /\ UNCHANGED <<drag_state, sessions>>
       ELSE IF tool_mode = "SketchDraw"
       THEN UNCHANGED <<tool_mode, selected_id, baseline_transform, transform_ui,
                        drag_state, sessions>>
       ELSE IF IsSome(picked)
       THEN /\ SelectPicked(Unwrap(picked))
            /\ UNCHANGED <<tool_mode, drag_state, sessions>>
       ELSE IF IsSome(hit)
       THEN /\ sessions < MaxSessions
            /\ sessions' = sessions + 1
            /\ drag_state' = Some(DragState(id, Unwrap(hit), start_transform))
            /\ UNCHANGED <<tool_mode, selected_id, baseline_transform, transform_ui>>
       ELSE /\ selected_id' = None
            /\ baseline_transform' = None
            /\ UNCHANGED <<transform_ui, tool_mode, drag_state, sessions>>

\* the mousedown listener on the canvas, for the left button; the camera
\* animation that enter_sketch_draw starts after a face is picked is followed
\* by EnterSketchDraw, with the camera
LeftDown(shot) ==
    LET hit == gizmo_hit(shot)
        surface == pick_surface(scene, shot.ray_o, shot.ray_d)
        picked == pick_object(scene, shot.ray_o, shot.ray_d)
        id == Unwrap(selected_id)
        ot == object_transform(scene, id)
        start_transform == IF IsSome(ot) THEN Unwrap(ot) ELSE Transform_default
    IN IF tool_mode = "SketchSelect"
       THEN /\ IF IsSome(surface)
               THEN /\ SelectPicked(Unwrap(surface).object_id)
                    /\ tool_mode' = "SketchDraw"
               ELSE UNCHANGED <<tool_mode, selected_id, baseline_transform, transform_ui>>
            /\ UNCHANGED <<drag_state, sessions>>
       ELSE IF tool_mode = "SketchDraw"
       THEN UNCHANGED <<tool_mode, selected_id, baseline_transform, transform_ui,
                        drag_state, sessions>>
       ELSE IF IsSome(hit)
       THEN /\ sessions < MaxSessions
            /\ sessions' = sessions + 1
            /\ drag_state' = Some(DragState(id, Unwrap(hit), start_transform))
            /\ UNCHANGED <<tool_mode, selected_id, baseline_transform, transform_ui>>
       ELSE /\ IF IsSome(picked)
               THEN SelectPicked(Unwrap(picked))
               ELSE /\ selected_id' = None
                    /\ baseline_transform' = None
                    /\ UNCHANGED transform_ui
            /\ UNCHANGED <<tool_mode, drag_state, sessions>>

\* the mousedown listener on the canvas: any other button returns at once
MouseDown ==
    \E button \in Buttons :
        /\ IsSome(renderer)
        /\ UNCHANGED <<scene, ret, last_read, camera_vars, server, renderer, edits>>
        /\ IF button # 0
           THEN UNCHANGED <<tool_mode, selected_id, baseline_transform, transform_ui,
                            drag_state, sessions>>
           ELSE \E shot \in Shots : LeftDown(shot)

\* a drag update that starts from the transform the object has now
drag_mousemove_live(s, r, ds, shot) ==
    LET ot == object_transform(s, ds.object_id)
        live == IF IsSome(ot) THEN Unwrap(ot) ELSE ds.start_transform
        applied(a, t) == Some([scene |-> a.scene, renderer |-> a.renderer, read |-> a.read,
                               transform_ui |-> TransformUi_from_transform(t)])
        written(new_t) ==
            IF new_t = None THEN None
            ELSE applied(apply_transform(s, r, ds.object_id, Unwrap(new_t)), Unwrap(new_t))
    IN written(drag_update([ds EXCEPT !.start_transform = live], shot.ray_o, shot.ray_d))

\* the body of the drag mousemove listener for the session ds: None when the
\* update is skipped, else the scene and renderer after apply_transform and
\* the panel values
drag_mousemove(s, r, ds, shot) ==
    LET applied(a, t) == Some([scene |-> a.scene, renderer |-> a.renderer, read |-> a.read,
                               transform_ui |-> TransformUi_from_transform(t)])
        written(new_t) ==
            IF new_t = None THEN None
            ELSE applied(apply_transform(s, r, ds.object_id, Unwrap(new_t)), Unwrap(new_t))
    IN written(drag_update(ds, shot.ray_o, shot.ray_d))

\* the drag mousemove listener with a session and the event's ray
DragMove(shot) ==
    LET done(m) == IF IsSome(m)
                   THEN /\ transform_ui' = Unwrap(m).transform_ui
                        /\ scene' = Unwrap(m).scene
                        /\ renderer' = Unwrap(m).renderer
                   ELSE UNCHANGED <<scene, renderer, transform_ui>>
    IN done(drag_mousemove(scene, renderer, Unwrap(drag_state), shot))

\* the mousemove listener on the window: without a session it returns
\* before it reads the ray
MouseMove ==
    /\ IsSome(renderer)
    /\ UNCHANGED <<ret, last_read, camera_vars, server, tool_mode, selected_id, baseline_transform,
                   drag_state, sessions, edits>>
    /\ IF drag_state = None
       THEN UNCHANGED <<scene, renderer, transform_ui>>
       ELSE \E shot \in Shots : DragMove(shot)

\* the mouseup listener on the window, for an event of the given button
MouseUpButton(button) ==
    /\ IsSome(renderer)
    /\ IF button = 0
       THEN drag_state' = None
       ELSE UNCHANGED drag_state
    /\ UNCHANGED <<scene, ret, last_read, camera_vars, server, renderer, tool_mode, selected_id,
                   baseline_transform, transform_ui, sessions, edits>>

MouseUp == \E button \in Buttons : MouseUpButton(button)

AppNext ==
    \/ RendererInit
    \/ AddBoxAction
    \/ AddCylinderAction
    \/ ActivateMoveTool
    \/ ActivateSelectTool
    \/ StartSketchSelect
    \/ FinishSketch
    \/ CancelSketch
    \/ KeyDown
    \/ BrowserSelect
    \/ PanelInput
    \/ PanelOk
    \/ PanelCancel
    \/ MouseDown
    \/ MouseMove
    \/ MouseUp

AppSpec == Init /\ [][AppNext]_vars

(***************************************************************************)
(* The pointer handlers on a scene of two objects: the add commands, the   *)
(* tool buttons and the mouse listeners only.                              *)
(***************************************************************************)
DragMaxObjects == 2

AddBoxSecond ==
    /\ Len(scene.model.objects) < DragMaxObjects
    /\ AfterAdd(add_box(scene, One, One, One))

AddCylinderSecond ==
    /\ Len(scene.model.objects) < DragMaxObjects
    /\ AfterAdd(add_cylinder(scene, One \div 2, (3 * One) \div 2))

DragNext ==
    \/ RendererInit
    \/ AddBoxSecond
    \/ AddCylinderSecond
    \/ ActivateMoveTool
    \/ ActivateSelectTool
    \/ MouseDown
    \/ MouseMove
    \/ MouseUp

DragSpec == Init /\ [][DragNext]_vars

(***************************************************************************)
(* Rotate drags: the mouse listeners with rays that meet the rings of the  *)
(* gizmo at the origin from the front and from the side, on an object the  *)
(* panel may have turned first.                                            *)
(***************************************************************************)
RingShots ==
    { FrontShot(-(One \div 2), 0), FrontShot(0, -(One \div 2)),
      FrontShot(-354, -354), FrontShot(354, -354), FrontShot(-354, 354),
      SideShot(-(One \div 2), 0), SideShot(0, -(One \div 2)), SideShot(-354, -354) }

\* the canvas mousedown listener for the left button with a ray of
\* RingShots, while the sessions allowed are not used up
RingDown ==
    /\ IsSome(renderer)
    /\ sessions < MaxSessions
    /\ UNCHANGED <<scene, ret, last_read, camera_vars, server, renderer, edits>>
    /\ \E shot \in RingShots : LeftDown(shot)

\* the drag mousemove listener with a ray of RingShots
RingMove ==
    /\ IsSome(renderer)
    /\ IsSome(drag_state)
    /\ UNCHANGED <<ret, last_read, camera_vars, server, tool_mode, selected_id, baseline_transform,
                   drag_state, sessions, edits>>
    /\ \E shot \in RingShots : DragMove(shot)

RotateDragNext ==
    \/ RendererInit
    \/ AddBoxAction
    \/ ActivateMoveTool
    \/ PanelInput
    \/ RingDown
    \/ RingMove
    \/ MouseUp

RotateDragSpec == Init /\ [][RotateDragNext]_vars

(***************************************************************************)
(* drag_rotate's angle arithmetic on its own: ring angles as atan2 gives   *)
(* them, each in [-pi, pi], taken in pairs.                                *)
(***************************************************************************)
AngleInputs ==
    { -PI, to_radians(-179 * One), -FRAC_PI_2, -FRAC_PI_4, -1, 0, 1,
      FRAC_PI_4, FRAC_PI_2, to_radians(179 * One), PI }

CallRotateDelta ==
    \E angle \in AngleInputs, start_angle \in AngleInputs :
        /\ ret' = [op |-> "rotate_delta", angle |-> angle, start_angle |-> start_angle,
                   val |-> rotate_delta(angle, start_angle)]
        /\ UNCHANGED <<scene, last_read, editor_vars, camera_vars, server>>

RotateDeltaSpec == Init /\ [][CallRotateDelta]_vars

(***************************************************************************)
(* pick_object on the scenes the scene operations build, for rays that     *)
(* start outside every bounding sphere, inside one, and that pass through  *)
(* two of them in either order.                                            *)
(***************************************************************************)
Ray(o, d) == [ray_o |-> o, ray_d |-> d]
PickRays ==
    { Ray(<<0, 0, 5 * One>>, <<0, 0, 0 - One>>),
      Ray(<<0, 0, 5 * One>>, <<0, 0, One>>),
      Ray(<<0, 0, One \div 2>>, <<0, 0, 0 - One>>),
      Ray(<<2 * One, 0, 5 * One>>, <<0, 0, 0 - One>>),
      Ray(<<0 - 3 * One, 0, 0 - (One \div 2)>>, <<One, 0, 0>>),
      Ray(<<5 * One, 0, 0 - (One \div 2)>>, <<0 - One, 0, 0>>),
      Ray(<<0, 5 * One, 5 * One>>, <<0, 0, 0 - One>>) }

CallPickObject ==
    \E ray \in PickRays :
        /\ ret' = [op |-> "pick_object", ray_o |-> ray.ray_o, ray_d |-> ray.ray_d,
                   val |-> pick_object(scene, ray.ray_o, ray.ray_d)]
        /\ UNCHANGED <<scene, last_read, editor_vars, camera_vars, server>>

PickNext ==
    \/ CallAddBox
    \/ CallAddCylinder
    \/ CallSetObjectTransform
    \/ CallPickObject

PickSpec == Init /\ [][PickNext]_vars

(***************************************************************************)
(* The camera under the default controls of the Renderer, the ViewCube and *)
(* the sketch commands. Pointer positions and wheel deltas are in pixels,  *)
(* times in milliseconds after the time origin of the page.                *)
(***************************************************************************)
MaxCameraEvents == 3
WheelDeltas == { 100 * One, 0 - 100 * One, 4000 * One, 0 - 2000 * One, NaN }
\* config.width and config.height
CanvasSize == <<800 * One, 600 * One>>
\* input.last_pos and the position of a mousemove with the middle button held
PointerMoves ==
    { << <<400 * One, 300 * One>>, <<500 * One, 300 * One>> >>,
      << <<400 * One, 300 * One>>, <<400 * One, 200 * One>> >> }
\* ViewCubeFace::normal of the face hit_face finds
FaceNormals == { <<0, 0, One>>, <<0, One, 0>>, <<0 - One, 0, 0>> }
EventTimes == { 16, 600 }

\* the wheel listener of attach_default_controls, for an event of the given
\* delta_y
WheelDelta(delta) ==
    /\ IsSome(renderer)
    /\ camera_events < MaxCameraEvents
    /\ camera_events' = camera_events + 1
    /\ renderer' = Some([Unwrap(renderer) EXCEPT !.camera = Camera_zoom(@, delta)])
    /\ UNCHANGED <<scene, ret, last_read, tool_mode, selected_id, baseline_transform,
                   transform_ui, drag_state, sessions, edits, raf, server>>

Wheel == \E delta \in WheelDeltas : WheelDelta(delta)

\* the mousemove listener of attach_default_controls while the middle
\* button is held: an orbit with the shift key, else a pan
ControlsMouseMove ==
    \E move \in PointerMoves, shift \in BOOLEAN :
        /\ IsSome(renderer)
        /\ camera_events < MaxCameraEvents
        /\ camera_events' = camera_events + 1
        /\ renderer' =
              Some([Unwrap(renderer) EXCEPT !.camera =
                  IF shift
                  THEN Camera_orbit_arcball(@, move[1], move[2], CanvasSize[1], CanvasSize[2])
                  ELSE Camera_pan(@, move[2][1] - move[1][1], move[2][2] - move[1][2])])
        /\ UNCHANGED <<scene, ret, last_read, tool_mode, selected_id, baseline_transform,
                       transform_ui, drag_state, sessions, edits, raf, server>>

\* the dblclick listener of the ViewCube, on a face
ViewCubeDblClick ==
    \E normal \in FaceNormals :
        /\ IsSome(renderer)
        /\ camera_events < MaxCameraEvents
        /\ camera_events' = camera_events + 1
        /\ renderer' =
              Some(set_camera_rotation(Unwrap(renderer),
                      snap_camera_rotation(QNormalize(Unwrap(renderer).camera.rotation),
                                           snap_vectors(normal)[1], snap_vectors(normal)[2])))
        /\ UNCHANGED <<scene, ret, last_read, tool_mode, selected_id, baseline_transform,
                       transform_ui, drag_state, sessions, edits, raf, server>>

\* enter_sketch_draw from a base plane button of the sketch prompt, which
\* is shown in the SketchSelect mode: the tool mode and the camera animation
EnterSketchDraw ==
    \E plane \in BaseSketchPlanes, now \in EventTimes :
        /\ tool_mode = "SketchSelect"
        /\ camera_events < MaxCameraEvents
        /\ camera_events' = camera_events + 1
        /\ tool_mode' = "SketchDraw"
        /\ raf' = IF IsSome(renderer)
                  THEN Append(raf, animation(Unwrap(renderer).camera, plane, now))
                  ELSE raf
        /\ UNCHANGED <<scene, ret, last_read, renderer, selected_id, baseline_transform,
                       transform_ui, drag_state, sessions, edits, server>>

\* one frame of the window: every callback it holds runs with the frame's
\* timestamp, and those with t < 1 are requested again
AnimationFrameAt(time) ==
    /\ raf # <<>>
    /\ renderer' = IF IsSome(renderer)
                   THEN Some(run_frame(Unwrap(renderer), raf, 1, time))
                   ELSE renderer
    /\ raf' = SelectSeq(raf, LAMBDA anim : animation_t(anim, time) < One)
    /\ UNCHANGED <<scene, ret, last_read, tool_mode, selected_id, baseline_transform,
                   transform_ui, drag_state, sessions, edits, camera_events, server>>

AnimationFrame == \E time \in EventTimes : AnimationFrameAt(time)

CameraNext ==
    \/ RendererInit
    \/ StartSketchSelect
    \/ EnterSketchDraw
    \/ AnimationFrame
    \/ Wheel
    \/ ControlsMouseMove
    \/ ViewCubeDblClick

CameraSpec == Init /\ [][CameraNext]_vars

(***************************************************************************)
(* The scene operations with transforms whose quaternion cannot be         *)
(* normalized: all zero, or not finite.                                    *)
(***************************************************************************)
DegenerateTransforms ==
    { Transform(VZero, <<0, 0, 0, 0>>), Transform(<<One, 0, 0>>, QNaN) }

CallSetDegenerateTransform ==
    \E id \in Ids, t \in DegenerateTransforms :
        LET r == set_object_transform(scene, id, t)
        IN /\ scene' = r.scene
           /\ ret' = [op |-> "set_object_transform", id |-> id, t |-> t, val |-> r.ret]
           /\ last_read' = IF r.ret THEN None ELSE last_read
           /\ UNCHANGED <<editor_vars, camera_vars, server>>

DegenerateNext ==
    \/ CallAddBox
    \/ CallAddCylinder
    \/ CallSetObjectTransform
    \/ CallSetDegenerateTransform
    \/ CallMesh

DegenerateSpec == Init /\ [][DegenerateNext]_vars

(***************************************************************************)
(* Properties of the scene.                                                *)
(***************************************************************************)
Objects == scene.model.objects
ObjectIds(s) == {s.model.objects[i].id : i \in 1..Len(s.model.objects)}
Known(s, id) == id \in ObjectIds(s)
FirstWith(s, id) == CHOOSE i \in 1..Len(s.model.objects) :
                        /\ s.model.objects[i].id = id
                        /\ \A j \in 1..(i - 1) : s.model.objects[j].id # id
MeshRead == ret.op = "mesh" /\ ret.val.ok

RECURSIVE Flatten(_)
Flatten(seqs) == IF seqs = <<>> THEN <<>> ELSE Head(seqs) \o Flatten(Tail(seqs))

RECURSIVE VertexCountBefore(_, _)
VertexCountBefore(s, i) ==
    IF i <= 1 THEN 0
    ELSE VertexCountBefore(s, i - 1) + Len(s.local_meshes[i - 1].positions)

\* What a read must return: per object, in order, its local mesh under its
\* current Transform, with its indices moved past the vertices before it.
WorldPositions(s, i) ==
    [k \in 1..Len(s.local_meshes[i].positions) |->
        transform_point3(transform_mat(s.model.objects[i].transform),
                         s.local_meshes[i].positions[k])]
WorldNormals(s, i) ==
    [k \in 1..Len(s.local_meshes[i].normals) |->
        append_normal(transform_mat(s.model.objects[i].transform),
                      s.local_meshes[i].normals[k])]
WorldIndices(s, i) ==
    [k \in 1..Len(s.local_meshes[i].indices) |->
        s.local_meshes[i].indices[k] + VertexCountBefore(s, i)]
ExpectedMesh(s) ==
    LET n == Len(s.model.objects)
    IN [positions |-> Flatten([i \in 1..n |-> WorldPositions(s, i)]),
        normals |-> Flatten([i \in 1..n |-> WorldNormals(s, i)]),
        indices |-> Flatten([i \in 1..n |-> WorldIndices(s, i)])]

\* C1: every successful mesh() read returns the concatenation, in object
\* order, of each object's cached local mesh under that object's current
\* Transform, and a combined mesh kept in the cache is never one built from a
\* Transform that has since been replaced.
C1_ReadReflectsCurrentTransforms ==
    /\ MeshRead => ret.val.val = ExpectedMesh(scene)
    /\ IsSome(scene.mesh_cache) => Unwrap(scene.mesh_cache) = ExpectedMesh(scene)

C1_Witness ==
    /\ MeshRead
    /\ ~ret.rebuilt
    /\ Len(Objects) >= 2
    /\ Objects[1].transform # Transform_default
    /\ Objects[2].transform # Objects[1].transform

\* C2: set_object_transform(id, t) with a known id returns true, gives the
\* object found under id the Transform t, leaves every other object, all ids,
\* the order, the id counter and the local geometry cache as they were, and
\* leaves mesh_cache = None.
C2_SetTransformFrame ==
    [][(ret'.op = "set_object_transform" /\ Known(scene, ret'.id)) =>
          LET i == FirstWith(scene, ret'.id)
          IN /\ ret'.val = TRUE
             /\ Len(scene'.model.objects) = Len(Objects)
             /\ scene'.model.objects[i] = [Objects[i] EXCEPT !.transform = ret'.t]
             /\ \A j \in 1..Len(Objects) : j # i => scene'.model.objects[j] = Objects[j]
             /\ scene'.model.next_id = scene.model.next_id
             /\ scene'.solids = scene.solids
             /\ scene'.local_meshes = scene.local_meshes
             /\ scene'.bounds_radius = scene.bounds_radius
             /\ scene'.local_aabbs = scene.local_aabbs
             /\ scene'.mesh_cache = None]_vars

C2_Witness ==
    /\ ret.op = "set_object_transform"
    /\ ret.val = TRUE
    /\ ret.t # Transform_default
    /\ Len(Objects) = MaxObjects
    /\ Objects[Len(Objects)].id = ret.id
    /\ Objects[Len(Objects) - 1].id = ret.id
    /\ Objects[Len(Objects) - 1].transform = ret.t
    /\ Objects[Len(Objects)].transform = Transform_default

\* C3: for an id no add call returned, object_transform, bounds_radius and
\* local_aabb return None and set_object_transform returns false, and the
\* call leaves the whole scene, a valid combined-mesh cache included, as it
\* was.
C3_UnknownIdIsNoOp ==
    [][/\ (ret'.op = "lookup" /\ ~Known(scene, ret'.id)) =>
            /\ ret'.object_transform = None
            /\ ret'.bounds_radius = None
            /\ ret'.local_aabb = None
            /\ scene' = scene
       /\ (ret'.op = "set_object_transform" /\ ~Known(scene, ret'.id)) =>
            /\ ret'.val = FALSE
            /\ scene' = scene]_vars

C3_Witness ==
    /\ ret.op = "set_object_transform"
    /\ ret.val = FALSE
    /\ ~Known(scene, ret.id)
    /\ IsSome(scene.mesh_cache)

\* C4: an add appends exactly one object at the end, with the identity
\* Transform, returns that object's id, leaves the objects already there and
\* their Transforms as they were, and leaves mesh_cache = None.
C4_AddAppendsIdentity ==
    [][ret'.op = "add" =>
          LET n == Len(Objects)
          IN /\ Len(scene'.model.objects) = n + 1
             /\ \A j \in 1..n : scene'.model.objects[j] = Objects[j]
             /\ scene'.model.objects[n + 1].transform = Transform(<<0, 0, 0>>, <<0, 0, 0, One>>)
             /\ scene'.model.objects[n + 1].id = ret'.val
             /\ scene'.mesh_cache = None]_vars

C4_Witness ==
    /\ ret.op = "add"
    /\ Len(Objects) >= 2
    /\ Objects[1].transform # Transform_default
    /\ Objects[Len(Objects)].transform = Transform_default

\* C5: the ids of the objects are pairwise distinct and each add returns an
\* id strictly greater than every id returned before, also once the id
\* counter has reached its largest value.
C5_IdsStrictlyIncreasing ==
    \A i, j \in 1..Len(Objects) : i < j => Objects[i].id < Objects[j].id

\* C6: mesh() returns Err(EmptyScene) exactly when the scene holds no object,
\* and then changes nothing; with at least one object it returns Ok with the
\* combined mesh.
C6_EmptySceneError ==
    [][ret'.op = "mesh" =>
          /\ ret'.val.ok <=> Len(Objects) > 0
          /\ ~ret'.val.ok => (ret'.val.err = "EmptyScene" /\ scene' = scene)
          /\ ret'.val.ok => scene'.mesh_cache = Some(ret'.val.val)]_vars

C6_Witness ==
    /\ ret.op = "mesh"
    /\ ~ret.val.ok
    /\ Len(Objects) = 0

\* C7: the mesh a read returns has as many triangles as the local meshes of
\* the objects in the scene have together, every index in it names a position
\* of the combined mesh, and the indices of the k-th object are its local
\* indices moved by the number of vertices of the objects before it.
LocalTriangles(s, i) == Len(s.local_meshes[i].indices) \div 3
RECURSIVE TrianglesUpTo(_, _)
TrianglesUpTo(s, n) == IF n = 0 THEN 0 ELSE TrianglesUpTo(s, n - 1) + LocalTriangles(s, n)

C7_TriangleCountAndIndices ==
    MeshRead =>
        LET m == ret.val.val
            n == Len(Objects)
        IN /\ Len(m.indices) = 3 * TrianglesUpTo(scene, n)
           /\ \A k \in 1..Len(m.indices) : m.indices[k] \in 0..(Len(m.positions) - 1)
           /\ \A i \in 1..n : \A k \in 1..Len(scene.local_meshes[i].indices) :
                 m.indices[3 * TrianglesUpTo(scene, i - 1) + k]
                    = scene.local_meshes[i].indices[k] + VertexCountBefore(scene, i)

C7_Witness ==
    /\ MeshRead
    /\ Len(Objects) = MaxObjects
    /\ Objects[1].kind.tag # Objects[2].kind.tag
    /\ Objects[2].transform # Transform_default

\* C8: the first mesh() after an add or a successful set_object_transform
\* rebuilds the combined mesh and stores it; every further mesh() with no
\* such call in between returns a mesh equal to that one, rebuilds nothing
\* and leaves the scene as it was.
C8_RebuiltOncePerBatch ==
    [][(ret'.op = "mesh" /\ ret'.val.ok) =>
          IF IsSome(last_read)
          THEN /\ ~ret'.rebuilt
               /\ ret'.val.val = Unwrap(last_read)
               /\ scene' = scene
          ELSE /\ ret'.rebuilt
               /\ scene'.mesh_cache = Some(ret'.val.val)
               /\ scene'.model = scene.model]_vars

C8_Witness ==
    /\ MeshRead
    /\ ~ret.rebuilt
    /\ IsSome(last_read)
    /\ Len(Objects) >= 2
    /\ Objects[2].transform # Transform_default

(***************************************************************************)
(* Properties of the drag session.                                         *)
(***************************************************************************)
session == Unwrap(drag_state)
OutsideSession ==
    <<scene, ret, last_read, renderer, tool_mode, selected_id, baseline_transform,
      transform_ui, edits>>

\* the step is a left-button mousedown that grabs the gizmo of the selected
\* object with the Move tool, and the session it opens holds that object's
\* id and the transform the object has in the scene at that moment
SessionStarts ==
    /\ tool_mode = "Move"
    /\ IsSome(selected_id)
    /\ IsSome(object_transform(scene, Unwrap(selected_id)))
    /\ UNCHANGED OutsideSession
    /\ \E shot \in Shots :
          LET id == Unwrap(selected_id)
              hit == hit_gizmo(scene, shot.eye, id, shot.ray_o, shot.ray_d)
          IN /\ IsSome(hit)
             /\ Unwrap(hit).mode.tag \in {"Translate", "Rotate"}
             /\ drag_state' = Some(DragState(id, Unwrap(hit),
                                             Unwrap(object_transform(scene, id))))
             /\ LeftDown(shot)

\* C9: the drag session is None initially; it is set only by a left-button
\* mousedown with the Move tool, a selected object and a gizmo hit for that
\* object, and then holds that object's id and its transform of that moment;
\* it is cleared only by a left-button mouseup, and every left-button mouseup
\* leaves it None; no other handler changes it.
C9_DragSessionLifecycle ==
    /\ drag_state = None
    /\ [][/\ (drag_state' # drag_state /\ IsSome(drag_state')) => SessionStarts
          /\ (drag_state' # drag_state /\ drag_state' = None) => MouseUpButton(0)
          /\ MouseUpButton(0) => drag_state' = None]_vars

C9_Witness ==
    /\ sessions >= 1
    /\ drag_state = None
    /\ tool_mode = "Move"
    /\ IsSome(selected_id)
    /\ object_transform(scene, Unwrap(selected_id)) # Some(Transform_default)

\* the step is the drag mousemove listener run with the ray of shot
DragMoveStep(shot) ==
    /\ IsSome(renderer)
    /\ IsSome(drag_state)
    /\ UNCHANGED <<ret, last_read, camera_vars, server, tool_mode, selected_id, baseline_transform,
                   drag_state, sessions, edits>>
    /\ DragMove(shot)

\* C10: in a drag session, the transform a mousemove writes to the object is
\* the one drag_translate or drag_rotate gives for the session's captured
\* data and the event's ray, whatever transform the object has at that
\* moment: it is the same after any earlier mousemoves of the session, and a
\* mousemove with the ray of the one before changes nothing.
C10_DragUpdateFromSessionOnly ==
    [][\A shot \in Shots :
          (/\ IsSome(drag_state)
           /\ drag_state' = drag_state
           /\ IsSome(drag_update(session, shot.ray_o, shot.ray_d))
           /\ DragMoveStep(shot))
          => /\ object_transform(scene', session.object_id)
                  = drag_update(session, shot.ray_o, shot.ray_d)
             /\ transform_ui'
                  = TransformUi_from_transform(
                        Unwrap(drag_update(session, shot.ray_o, shot.ray_d)))]_vars

\* a session in which updates moved the object away from the captured
\* transform and the last one put it where its ray alone says
C10_Witness ==
    /\ IsSome(drag_state)
    /\ object_transform(scene, session.object_id) # Some(session.start_transform)
    /\ \E shot \in Shots :
          object_transform(scene, session.object_id)
             = drag_update(session, shot.ray_o, shot.ray_d)

\* C11: a left-button mouseup that ends a drag of the selected object, begun
\* with the baseline at the object's transform, discards the session and
\* makes the object's transform of that moment the baseline, the transform
\* the panel's Cancel reverts to.
C11_PointerUpSetsBaseline ==
    [][(/\ IsSome(drag_state)
        /\ selected_id = Some(session.object_id)
        /\ baseline_transform = Some(session.start_transform)
        /\ MouseUpButton(0))
       => /\ drag_state' = None
          /\ baseline_transform' = object_transform(scene', session.object_id)]_vars

\* C12: while a drag session is active, a step that changes the dragged
\* object's transform is a drag update of that session (the mousemove
\* listener run with some ray); the panel, the add commands and the keyboard
\* leave that transform alone.
C12_SessionIsSoleWriter ==
    [][(/\ IsSome(drag_state)
        /\ drag_state' = drag_state
        /\ object_transform(scene', session.object_id)
              # object_transform(scene, session.object_id))
       => \E shot \in Shots : DragMoveStep(shot)]_vars

\* the ray of shot is parallel to the session's drag or ring plane, or, in a
\* rotate drag, meets that plane at or behind its origin
Degenerate(ds, shot) ==
    LET denom == Dot(ds.plane_normal_world, shot.ray_d)
    IN \/ Tiny(denom)
       \/ /\ ds.mode.tag = "Rotate"
          /\ FDiv(Dot(ds.plane_normal_world,
                      VSub(ds.start_origin_world, shot.ray_o)), denom) <= 0

\* C13: in a drag session a mousemove whose ray is degenerate computes no
\* update and changes nothing: the scene with the object's transform and the
\* mesh cache, the renderer, the panel values and the session stay as they
\* are; the session remains, and a ray that is not degenerate still yields an
\* update.
C13_DegenerateUpdateSkipped ==
    /\ [](IsSome(drag_state) =>
             \A shot \in Shots :
                Degenerate(session, shot)
                   <=> drag_update(session, shot.ray_o, shot.ray_d) = None)
    /\ [][\A shot \in Shots :
             (/\ IsSome(drag_state)
              /\ Degenerate(session, shot)
              /\ DragMoveStep(shot))
             => UNCHANGED <<scene, renderer, transform_ui, drag_state>>]_vars

\* a session whose object an update has moved, with a degenerate ray and a
\* ray that is not among the rays of the next event
C13_Witness ==
    /\ IsSome(drag_state)
    /\ object_transform(scene, session.object_id) # Some(session.start_transform)
    /\ IsSome(scene.mesh_cache)
    /\ \E shot \in Shots : Degenerate(session, shot)
    /\ \E shot \in Shots : ~Degenerate(session, shot)

\* where the ray of shot meets the session's drag plane, and how far along
\* the session's axis that point lies from the drag-start origin
PlanePoint(ds, shot) ==
    VAdd(shot.ray_o,
         VScale(shot.ray_d,
                FDiv(Dot(ds.plane_normal_world, VSub(ds.start_origin_world, shot.ray_o)),
                     Dot(ds.plane_normal_world, shot.ray_d))))
AxisPosition(ds, shot) ==
    Dot(ds.axis_dir_world, VSub(PlanePoint(ds, shot), ds.start_origin_world))

\* C14: after a translate-drag mousemove that is applied, the object's
\* translation is the drag-start translation plus the axis direction times
\* (the axis position of the ray's drag-plane point minus the axis position
\* captured at the start), the offset from the start translation has no
\* component across the axis, and the rotation is the drag-start rotation.
C14_TranslateAlongAxis ==
    [][\A shot \in Shots :
          (/\ IsSome(drag_state)
           /\ session.mode.tag = "Translate"
           /\ ~Degenerate(session, shot)
           /\ DragMoveStep(shot))
          => LET now == Unwrap(object_transform(scene', session.object_id))
                 start == session.start_transform
                 offset == VSub(now.translation, start.translation)
                 across == Cross(offset, session.axis_dir_world)
             IN /\ now.translation
                     = VAdd(start.translation,
                            VScale(session.axis_dir_world,
                                   AxisPosition(session, shot) - session.start_axis_t))
                /\ \A k \in 1..3 : Abs(across[k]) <= 1
                /\ now.rotation = start.rotation]_vars

\* a translate drag that has moved the object along its axis
C14_Witness ==
    /\ IsSome(drag_state)
    /\ session.mode.tag = "Translate"
    /\ IsSome(object_transform(scene, session.object_id))
    /\ Unwrap(object_transform(scene, session.object_id)).translation
          # session.start_transform.translation
    /\ \E shot \in Shots :
          /\ ~Degenerate(session, shot)
          /\ object_transform(scene, session.object_id)
                = drag_translate(session, shot.ray_o, shot.ray_d)

\* C15: for ring angles in [-pi, pi] the angle a rotate drag applies lies in
\* (-pi, pi] and differs from (current angle - start angle) by a multiple of
\* a full turn.
C15_DeltaWrappedHalfOpen ==
    ret.op = "rotate_delta" =>
        /\ -PI < ret.val
        /\ ret.val <= PI
        /\ ret.val - (ret.angle - ret.start_angle) \in {-TAU, 0, TAU}

(***************************************************************************)
(* Properties of the gizmo hit test and of picking.                        *)
(***************************************************************************)
\* the gizmo of a known object id seen from eye: its origin, its three axes,
\* the lengths and the two thresholds
GizmoFrame(s, eye, id) ==
    LET t == Unwrap(object_transform(s, id))
        rot == quat_from_transform(t)
        frame(dist_to_obj, dims) ==
            [origin |-> t.translation,
             axes |-> << Normalize(QRotate(rot, <<One, 0, 0>>)),
                         Normalize(QRotate(rot, <<0, One, 0>>)),
                         Normalize(QRotate(rot, <<0, 0, One>>)) >>,
             axis_len |-> dims.axis_len,
             ring_r |-> dims.ring_r,
             threshold |-> Max(Max(FMul(dims.axis_len, 180), FMul(dist_to_obj, 15)), 50),
             ring_threshold |-> Max(Max(FMul(dims.ring_r, 200), FMul(dist_to_obj, 15)), 50)]
        at(dist_to_obj) ==
            frame(dist_to_obj,
                  gizmo_dimensions(Max(Unwrap(bounds_radius(s, id)), 250), dist_to_obj))
    IN at(Max(Length(VSub(eye, t.translation)), 1))

\* the distance of the ray of shot from the k-th axis segment of the gizmo f
AxisDistance(f, shot, k) ==
    ray_segment_distance(shot.ray_o, shot.ray_d, f.origin,
                         VAdd(f.origin, VScale(f.axes[k], f.axis_len))).dist

\* the ray of shot meets the plane of the k-th ring of the gizmo f in front
\* of its origin, at a point whose distance from the gizmo's origin is
\* within the ring threshold of the ring radius
OnRing(f, shot, k) ==
    LET n == f.axes[k]
        denom == Dot(n, shot.ray_d)
        near(p) == Abs(Length(VSub(p, f.origin)) - f.ring_r) <= f.ring_threshold
        reached(t_hit) ==
            t_hit > 0 /\ near(VAdd(shot.ray_o, VScale(shot.ray_d, t_hit)))
    IN ~Tiny(denom) /\ reached(FDiv(Dot(n, VSub(f.origin, shot.ray_o)), denom))

\* what C16 asks of the answer h for the gizmo f and the ray of shot
GizmoAnswer(h, f, shot) ==
    LET near == {k \in 1..3 : AxisDistance(f, shot, k) < f.threshold}
        rings == {k \in 1..3 : OnRing(f, shot, k)}
    IN /\ near # {} =>
             /\ IsSome(h)
             /\ Unwrap(h).mode.tag = "Translate"
             /\ \E k \in near :
                   /\ Unwrap(h).axis_dir_world = f.axes[k]
                   /\ \A j \in 1..3 : AxisDistance(f, shot, k) <= AxisDistance(f, shot, j)
       /\ (near = {} /\ rings # {}) =>
             /\ IsSome(h)
             /\ Unwrap(h).mode.tag = "Rotate"
             /\ \E k \in rings : Unwrap(h).plane_n = f.axes[k]
       /\ (near = {} /\ rings = {}) => h = None

\* C16: hit_gizmo answers an unknown object id with None; for a known one it
\* answers with a translate hit on the axis nearest to the ray whenever some
\* axis segment is nearer than the threshold, with a rotate hit only when no
\* axis is and a ring is met, and with None when neither is.
C16_AxesBeforeRings ==
    \A shot \in Shots, id \in Ids :
        IF object_transform(scene, id) = None
        THEN hit_gizmo(scene, shot.eye, id, shot.ray_o, shot.ray_d) = None
        ELSE GizmoAnswer(hit_gizmo(scene, shot.eye, id, shot.ray_o, shot.ray_d),
                         GizmoFrame(scene, shot.eye, id), shot)

\* an object away from its first place whose gizmo one ray takes by an axis
\* though it also meets a ring, another takes by a ring, and another misses
C16_Witness ==
    /\ \E id \in Ids : object_transform(scene, id) = None
    /\ \E id \in Ids :
          /\ IsSome(object_transform(scene, id))
          /\ object_transform(scene, id) # Some(Transform_default)
          /\ \E shot \in Shots :
                /\ \E k \in 1..3 : OnRing(GizmoFrame(scene, shot.eye, id), shot, k)
                /\ IsSome(hit_gizmo(scene, shot.eye, id, shot.ray_o, shot.ray_d))
                /\ Unwrap(hit_gizmo(scene, shot.eye, id, shot.ray_o,
                                    shot.ray_d)).mode.tag = "Translate"
          /\ \E shot \in Shots :
                /\ IsSome(hit_gizmo(scene, shot.eye, id, shot.ray_o, shot.ray_d))
                /\ Unwrap(hit_gizmo(scene, shot.eye, id, shot.ray_o,
                                    shot.ray_d)).mode.tag = "Rotate"
          /\ \E shot \in Shots :
                hit_gizmo(scene, shot.eye, id, shot.ray_o, shot.ray_d) = None

\* the smallest positive distance along the ray at which it meets the sphere
\* of the given centre and radius: the smaller positive root of
\* |ray_o + t * ray_d - center|^2 = radius^2, or None
FirstMeeting(ray_o, ray_d, center, radius) ==
    LET oc == VSub(ray_o, center)
        b == Dot(oc, ray_d)
        disc == FMul(b, b) - (Dot(oc, oc) - FMul(radius, radius))
        of_roots(root) ==
            IF 0 - b - root > 0 THEN Some(0 - b - root)
            ELSE IF root - b > 0 THEN Some(root - b) ELSE None
    IN IF disc < 0 THEN None ELSE of_roots(FSqrt(disc))

\* the same for the bounding sphere of the k-th object of the scene
ObjectMeeting(s, k, ray_o, ray_d) ==
    FirstMeeting(ray_o, ray_d, s.model.objects[k].transform.translation,
                 Unwrap(bounds_radius(s, s.model.objects[k].id)))

\* the scene with every object turned back to the identity rotation
Unrotated(s) ==
    [s EXCEPT !.model.objects =
        [k \in 1..Len(s.model.objects) |->
            [s.model.objects[k] EXCEPT !.transform.rotation = <<0, 0, 0, One>>]]]

\* C19: pick_object returns an object whose bounding sphere the ray meets at
\* the smallest positive distance among all objects, None when the ray meets
\* no bounding sphere at a positive distance, and the same answer whatever
\* the objects' rotations are.
C19_NearestSphere ==
    ret.op = "pick_object" =>
        LET met == {k \in 1..Len(scene.model.objects) :
                        IsSome(ObjectMeeting(scene, k, ret.ray_o, ret.ray_d))}
        IN /\ met = {} => ret.val = None
           /\ met # {} =>
                 \E k \in met :
                    /\ ret.val = Some(scene.model.objects[k].id)
                    /\ \A j \in met :
                          Unwrap(ObjectMeeting(scene, k, ret.ray_o, ret.ray_d))
                            <= Unwrap(ObjectMeeting(scene, j, ret.ray_o, ret.ray_d))
           /\ ret.val = pick_object(Unrotated(scene), ret.ray_o, ret.ray_d)

\* the ray points exactly from its origin to the point c
AimedAt(ray_o, ray_d, c) ==
    /\ c # ray_o
    /\ ray_d = Normalize(VSub(c, ray_o))

\* C20: a ray that points exactly from its origin to the translation of an
\* object makes pick_object return that object, whenever the ray meets the
\* bounding sphere of no other object as near as it meets that object's.
C20_AimedRayPicks ==
    ret.op = "pick_object" =>
        \A k \in 1..Len(scene.model.objects) :
            (/\ AimedAt(ret.ray_o, ret.ray_d, scene.model.objects[k].transform.translation)
             /\ \A j \in 1..Len(scene.model.objects) \ {k} :
                   \/ ObjectMeeting(scene, j, ret.ray_o, ret.ray_d) = None
                   \/ Unwrap(ObjectMeeting(scene, j, ret.ray_o, ret.ray_d))
                        > Unwrap(ObjectMeeting(scene, k, ret.ray_o, ret.ray_d)))
            => ret.val = Some(scene.model.objects[k].id)

(***************************************************************************)
(* Properties of the camera.                                               *)
(***************************************************************************)
camera == Unwrap(renderer).camera

\* C17: a view-snap animation in flight is replaced by a new snap and by any
\* direct orbit, pan or zoom: after a new animation starts it is the only
\* one the window holds, and after an orbit, a pan, a zoom or a ViewCube snap
\* the window holds none, so that no frame of an earlier animation writes
\* the camera afterwards.
C17_SnapReplaced ==
    [][/\ EnterSketchDraw => Len(raf') <= 1
       /\ (Wheel \/ ControlsMouseMove \/ ViewCubeDblClick) => raf' = <<>>]_vars

\* C18: the camera starts at the distance 4.0; every zoom multiplies the
\* distance by max(1 + delta * 0.001, 0.05), clamps it to [0.2, 200] and
\* leaves the target and the orientation as they were, so the distance is
\* in [0.2, 200] after any sequence of zooms.
C18_ZoomClamped ==
    [][/\ (renderer = None /\ IsSome(renderer')) =>
             Unwrap(renderer').camera.radius = 4 * One
       /\ \A delta \in WheelDeltas :
             WheelDelta(delta) =>
                LET factor == IF IsNaN(delta) THEN One \div 20
                              ELSE Max(One + RDiv(delta, 1000), One \div 20)
                    product == FMul(camera.radius, factor)
                IN /\ Unwrap(renderer').camera.radius =
                        (IF product < One \div 5 THEN One \div 5
                         ELSE IF product > 200 * One THEN 200 * One ELSE product)
                   /\ Unwrap(renderer').camera.radius >= One \div 5
                   /\ Unwrap(renderer').camera.radius <= 200 * One
                   /\ Unwrap(renderer').camera.target = camera.target
                   /\ Unwrap(renderer').camera.rotation = camera.rotation]_vars

\* three or more camera events, zooms among them, have brought the distance
\* to one end of the range
C18_Witness ==
    /\ IsSome(renderer)
    /\ camera.radius \in {One \div 5, 200 * One}
    /\ camera_events >= 3
    /\ raf = <<>>

(***************************************************************************)
(* Further properties of picking and of the scene.                         *)
(***************************************************************************)
\* the factors a ray direction is stretched by
RayScales == { One \div 2, 2 * One, 3 * One }

\* pick_surface gives the same answer for the direction d and for d
\* stretched by any of the factors, and none for the zero direction
SurfaceByDirectionOnly(s, o, d) ==
    /\ \A k \in RayScales : pick_surface(s, o, VScale(d, k)) = pick_surface(s, o, d)
    /\ pick_surface(s, o, VZero) = None

\* the same of pick_object
ObjectByDirectionOnly(s, o, d) ==
    /\ \A k \in RayScales : pick_object(s, o, VScale(d, k)) = pick_object(s, o, d)
    /\ pick_object(s, o, VZero) = None

\* C21: pick_object and pick_surface give the same result for a ray
\* direction and for every positive multiple of it, and no hit for a
\* direction of length zero.
C21_DirectionOnly ==
    ret.op = "pick_object" =>
        /\ SurfaceByDirectionOnly(scene, ret.ray_o, ret.ray_d)
        /\ ObjectByDirectionOnly(scene, ret.ray_o, ret.ray_d)

\* no coordinate of the vector is NaN
FiniteVec(v) == \A k \in 1..Len(v) : ~IsNaN(v[k])

\* C22: a stored quaternion of length zero, or one that is not finite, is
\* read as the identity rotation by quat_from_transform and by
\* transform_mat, and every mesh() read has finite positions and normals.
C22_DegenerateReadAsIdentity ==
    /\ \A k \in 1..Len(scene.model.objects) :
          LET t == scene.model.objects[k].transform
          IN (IsNaN(t.rotation[1]) \/ QLength(t.rotation) = 0) =>
                /\ quat_from_transform(t) = QIdentity
                /\ transform_mat(t) = transform_mat([t EXCEPT !.rotation = QIdentity])
    /\ (ret.op = "mesh" /\ ret.val.ok) =>
          /\ \A k \in 1..Len(ret.val.val.positions) : FiniteVec(ret.val.val.positions[k])
          /\ \A k \in 1..Len(ret.val.val.normals) : FiniteVec(ret.val.val.normals[k])

(***************************************************************************)
(* Picking a box and dragging it along X, end to end.                      *)
(***************************************************************************)
\* the scene holds one object, a box of 1 x 1 x 1 placed by the identity
OneUnitBox(s) ==
    /\ Len(s.model.objects) = 1
    /\ s.model.objects[1].transform = Transform_default
    /\ s.solids[1] = make_box(One, One, One)

\* a and b differ by at most one unit of the fixed-point resolution in
\* every coordinate
VNear(a, b) == \A k \in 1..3 : Abs(a[k] - b[k]) <= 1

\* the combined mesh m is the local mesh of the only object moved by offset
MovedBy(m, local, offset) ==
    /\ Len(m.positions) = Len(local.positions)
    /\ \A k \in 1..Len(local.positions) :
          VNear(m.positions[k], VAdd(local.positions[k], offset))
    /\ m.normals = local.normals
    /\ m.indices = local.indices

\* C23: with one 1 x 1 x 1 box at the identity, pick_object from (0,0,5)
\* along (0,0,-1) returns the box's id; a translate drag on X that took hold
\* of the axis at position 0, fed the ray that meets the drag plane at
\* x = 2, leaves the box at translation (2,0,0) with its rotation as it was,
\* and the next mesh() read is the box moved there.
C23_PickThenDragX ==
    /\ [](OneUnitBox(scene) =>
             pick_object(scene, <<0, 0, 5 * One>>, <<0, 0, -One>>)
                = Some(scene.model.objects[1].id))
    /\ [][(/\ OneUnitBox(scene)
            /\ IsSome(drag_state)
            /\ session.mode = DragMode_Translate
            /\ session.axis_dir_world = <<One, 0, 0>>
            /\ session.start_axis_t = 0
            /\ session.start_transform = Transform_default
            /\ DragMoveStep(FrontShot(2 * One, 0)))
           => /\ VNear(scene'.model.objects[1].transform.translation, <<2 * One, 0, 0>>)
              /\ scene'.model.objects[1].transform.rotation = QIdentity
              /\ mesh(scene').ret.ok
              /\ MovedBy(mesh(scene').ret.val, scene.local_meshes[1], <<2 * One, 0, 0>>)]_vars

\* the drag on X that took hold at position 0 has moved the box to x = 2
C23_Witness ==
    /\ IsSome(drag_state)
    /\ session.mode = DragMode_Translate
    /\ session.axis_dir_world = <<One, 0, 0>>
    /\ session.start_axis_t = 0
    /\ session.start_transform = Transform_default
    /\ Len(scene.model.objects) = 1
    /\ scene.solids[1] = make_box(One, One, One)
    /\ scene.model.objects[1].transform = Transform(<<2 * One, 0, 0>>, QIdentity)
    /\ IsSome(renderer)
    /\ MovedBy(Unwrap(renderer).mesh, scene.local_meshes[1], <<2 * One, 0, 0>>)

(***************************************************************************)
(* cad-protocol: the messages and their JSON encoding by serde_json.  A    *)
(* JSON document is modelled as its value: an object is a sequence of      *)
(* <<key, value>> members, a value is a string, an integer, a float or     *)
(* null.  f32 fields keep the fixed-point reading, with NaN and Infinity   *)
(* for the values that are not finite.                                     *)
(***************************************************************************)
Infinity == 1000000000
IsFinite(a) == ~IsNaN(a) /\ a # Infinity /\ a # -Infinity

JNull == [k |-> "null"]
JString(v) == [k |-> "string", v |-> v]
JInt(v) == [k |-> "int", v |-> v]
JFloat(v) == [k |-> "float", v |-> v]

\* serde_json's serialize_f32: a value that is not finite is written as null
serialize_f32(a) == IF IsFinite(a) THEN JFloat(a) ELSE JNull
\* Option<String>: None is written as null
serialize_option_string(o) == IF IsSome(o) THEN JString(Unwrap(o)) ELSE JNull

\* a ClientMsg serializer that leaves out the "type" member
ClientMsg_serialize_untagged(msg) ==
    CASE msg.variant = "Hello" ->
            << <<"client_version", JString(msg.client_version)>> >>
      [] msg.variant = "AddBox" ->
            << <<"w", serialize_f32(msg.w)>>, <<"h", serialize_f32(msg.h)>>,
               <<"d", serialize_f32(msg.d)>> >>
      [] msg.variant = "AddCylinder" ->
            << <<"r", serialize_f32(msg.r)>>, <<"h", serialize_f32(msg.h)>> >>
      [] msg.variant = "RequestHeavy" ->
            << <<"kind", JString(msg.kind)>>,
               <<"payload", serialize_option_string(msg.payload)>> >>

\* #[derive(Serialize)] #[serde(tag = "type")] on ClientMsg: the variant's
\* name under "type", then the variant's fields
ClientMsg_serialize(msg) ==
    << <<"type", JString(msg.variant)>> >> \o
    (CASE msg.variant = "Hello" ->
            << <<"client_version", JString(msg.client_version)>> >>
       [] msg.variant = "AddBox" ->
            << <<"w", serialize_f32(msg.w)>>, <<"h", serialize_f32(msg.h)>>,
               <<"d", serialize_f32(msg.d)>> >>
       [] msg.variant = "AddCylinder" ->
            << <<"r", serialize_f32(msg.r)>>, <<"h", serialize_f32(msg.h)>> >>
       [] msg.variant = "RequestHeavy" ->
            << <<"kind", JString(msg.kind)>>,
               <<"payload", serialize_option_string(msg.payload)>> >>)

ServerMsg_serialize(msg) ==
    << <<"type", JString(msg.variant)>> >> \o
    (CASE msg.variant = "HelloAck" -> << >>
       [] msg.variant = "Log" -> << <<"text", JString(msg.text)>> >>
       [] msg.variant = "JobAccepted" -> << <<"job_id", JInt(msg.job_id)>> >>
       [] msg.variant = "JobResult" ->
            << <<"job_id", JInt(msg.job_id)>>, <<"payload", JString(msg.payload)>> >>)

\* the member of the object under key, if there is one
json_get(obj, key) ==
    LET at == { n \in 1..Len(obj) : obj[n][1] = key }
    IN IF at = {} THEN None ELSE Some(obj[CHOOSE n \in at : \A m \in at : n <= m][2])

\* the field deserializers: the value read, or None for a type error or a
\* missing member; a JSON integer is accepted for an f32, null is not
deserialize_f32(obj, key) ==
    LET got(m) == IF m = None THEN None
                  ELSE IF Unwrap(m).k = "float" THEN Some(Unwrap(m).v)
                  ELSE IF Unwrap(m).k = "int" THEN Some(Unwrap(m).v * One)
                  ELSE None
    IN got(json_get(obj, key))
deserialize_u64(obj, key) ==
    LET got(m) == IF m = None THEN None
                  ELSE IF Unwrap(m).k = "int" /\ Unwrap(m).v >= 0 THEN Some(Unwrap(m).v)
                  ELSE None
    IN got(json_get(obj, key))
deserialize_string(obj, key) ==
    LET got(m) == IF m = None THEN None
                  ELSE IF Unwrap(m).k = "string" THEN Some(Unwrap(m).v)
                  ELSE None
    IN got(json_get(obj, key))
\* Option<String>: a missing member and null both read as None
deserialize_option_string(obj, key) ==
    LET got(m) == IF m = None THEN Some(None)
                  ELSE IF Unwrap(m).k = "null" THEN Some(None)
                  ELSE IF Unwrap(m).k = "string" THEN Some(Some(Unwrap(m).v))
                  ELSE None
    IN got(json_get(obj, key))

\* all the fields were read
AllRead(fields) == \A n \in 1..Len(fields) : IsSome(fields[n])

\* #[derive(Deserialize)] #[serde(tag = "type")] on ClientMsg
ClientMsg_deserialize(obj) ==
    LET tag == deserialize_string(obj, "type")
        read_hello(v) ==
            IF AllRead(v)
            THEN Ok([variant |-> "Hello", client_version |-> Unwrap(v[1])])
            ELSE Err("field")
        read_add_box(v) ==
            IF AllRead(v)
            THEN Ok([variant |-> "AddBox", w |-> Unwrap(v[1]), h |-> Unwrap(v[2]),
                     d |-> Unwrap(v[3])])
            ELSE Err("field")
        read_add_cylinder(v) ==
            IF AllRead(v)
            THEN Ok([variant |-> "AddCylinder", r |-> Unwrap(v[1]), h |-> Unwrap(v[2])])
            ELSE Err("field")
        read_request_heavy(v) ==
            IF AllRead(v)
            THEN Ok([variant |-> "RequestHeavy", kind |-> Unwrap(v[1]),
                     payload |-> Unwrap(v[2])])
            ELSE Err("field")
    IN IF tag = None THEN Err("missing tag")
       ELSE CASE Unwrap(tag) = "Hello" ->
                    read_hello(<<deserialize_string(obj, "client_version")>>)
              [] Unwrap(tag) = "AddBox" ->
                    read_add_box(<<deserialize_f32(obj, "w"), deserialize_f32(obj, "h"),
                              deserialize_f32(obj, "d")>>)
              [] Unwrap(tag) = "AddCylinder" ->
                    read_add_cylinder(<<deserialize_f32(obj, "r"), deserialize_f32(obj, "h")>>)
              [] Unwrap(tag) = "RequestHeavy" ->
                    read_request_heavy(<<deserialize_string(obj, "kind"),
                                    deserialize_option_string(obj, "payload")>>)
              [] OTHER -> Err("unknown variant")

ServerMsg_deserialize(obj) ==
    LET tag == deserialize_string(obj, "type")
        log(v) ==
            IF AllRead(v) THEN Ok([variant |-> "Log", text |-> Unwrap(v[1])])
            ELSE Err("field")
        job_accepted(v) ==
            IF AllRead(v) THEN Ok([variant |-> "JobAccepted", job_id |-> Unwrap(v[1])])
            ELSE Err("field")
        job_result(v) ==
            IF AllRead(v)
            THEN Ok([variant |-> "JobResult", job_id |-> Unwrap(v[1]),
                     payload |-> Unwrap(v[2])])
            ELSE Err("field")
    IN IF tag = None THEN Err("missing tag")
       ELSE CASE Unwrap(tag) = "HelloAck" -> Ok([variant |-> "HelloAck"])
              [] Unwrap(tag) = "Log" -> log(<<deserialize_string(obj, "text")>>)
              [] Unwrap(tag) = "JobAccepted" ->
                    job_accepted(<<deserialize_u64(obj, "job_id")>>)
              [] Unwrap(tag) = "JobResult" ->
                    job_result(<<deserialize_u64(obj, "job_id"),
                                 deserialize_string(obj, "payload")>>)
              [] OTHER -> Err("unknown variant")

\* the field values the messages are built from
F32Inputs == { 0, One, 0 - (5 * One) \div 2, NaN, Infinity }
StringInputs == { "", "ok", "Hello" }
U64Inputs == { 0, 42, 2147483647 }

ClientMsgs ==
    [variant : {"Hello"}, client_version : StringInputs]
    \cup [variant : {"AddBox"}, w : F32Inputs, h : F32Inputs, d : F32Inputs]
    \cup [variant : {"AddCylinder"}, r : F32Inputs, h : F32Inputs]
    \cup [variant : {"RequestHeavy"}, kind : StringInputs,
          payload : {None} \cup { Some(x) : x \in StringInputs }]
ServerMsgs ==
    { [variant |-> "HelloAck"] }
    \cup [variant : {"Log"}, text : StringInputs]
    \cup [variant : {"JobAccepted"}, job_id : U64Inputs]
    \cup [variant : {"JobResult"}, job_id : U64Inputs, payload : StringInputs]

\* serde_json::to_string and serde_json::from_str on its result
CallClientRoundTrip ==
    \E msg \in ClientMsgs :
        /\ ret' = [op |-> "client_roundtrip", msg |-> msg,
                   json |-> ClientMsg_serialize(msg),
                   back |-> ClientMsg_deserialize(ClientMsg_serialize(msg))]
        /\ UNCHANGED <<scene, last_read, editor_vars, camera_vars, server>>

CallServerRoundTrip ==
    \E msg \in ServerMsgs :
        /\ ret' = [op |-> "server_roundtrip", msg |-> msg,
                   json |-> ServerMsg_serialize(msg),
                   back |-> ServerMsg_deserialize(ServerMsg_serialize(msg))]
        /\ UNCHANGED <<scene, last_read, editor_vars, camera_vars, server>>

ProtocolNext ==
    \/ CallClientRoundTrip
    \/ CallServerRoundTrip

ProtocolSpec == Init /\ [][ProtocolNext]_vars

\* the f32 fields of the message are finite
FiniteFields(msg) ==
    CASE msg.variant = "AddBox" -> IsFinite(msg.w) /\ IsFinite(msg.h) /\ IsFinite(msg.d)
      [] msg.variant = "AddCylinder" -> IsFinite(msg.r) /\ IsFinite(msg.h)
      [] OTHER -> TRUE

\* C24 as stated: every ClientMsg and every ServerMsg is read back from its
\* JSON as a message equal to the original.
C24_EveryMessageRoundTrips ==
    ret.op \in {"client_roundtrip", "server_roundtrip"} => ret.back = Ok(ret.msg)

\* C24: every ClientMsg whose f32 fields are finite and every ServerMsg is
\* read back from its JSON as a message equal to the original; and whatever
\* a message's JSON is read back as, it is the same variant.
C24_FiniteMessageRoundTrips ==
    ret.op \in {"client_roundtrip", "server_roundtrip"} =>
        /\ FiniteFields(ret.msg) => ret.back = Ok(ret.msg)
        /\ ret.back.ok => ret.back.val.variant = ret.msg.variant

\* a request without payload and a box of finite sides came back unchanged
C24_Witness ==
    /\ ret.op = "client_roundtrip"
    /\ ret.msg.variant = "AddBox"
    /\ ret.msg.w = 0 - (5 * One) \div 2
    /\ json_get(ret.json, "w") = Some(JFloat(ret.msg.w))
    /\ ret.back = Ok(ret.msg)

(***************************************************************************)
(* Properties of the pointer handlers.                                     *)
(***************************************************************************)
\* the step is the canvas mousedown listener run for the left button with
\* the ray of shot
LeftDownStep(shot) ==
    /\ IsSome(renderer)
    /\ UNCHANGED <<scene, ret, last_read, camera_vars, server, renderer, edits>>
    /\ LeftDown(shot)

\* C25: on a left-button mousedown outside the sketch modes, a gizmo hit
\* with the Move tool and a selected object starts a drag session for that
\* object and leaves selection and baseline alone; otherwise no session
\* starts and pick_object decides the selection: a hit selects the object
\* and makes its transform the baseline, a miss clears both.
C25_GizmoBeforePick ==
    [][\A shot \in Shots :
          (/\ tool_mode \notin {"SketchSelect", "SketchDraw"}
           /\ LeftDownStep(shot))
          => IF /\ tool_mode = "Move"
                /\ IsSome(selected_id)
                /\ IsSome(hit_gizmo(scene, shot.eye, Unwrap(selected_id),
                                    shot.ray_o, shot.ray_d))
             THEN /\ IsSome(drag_state')
                  /\ Unwrap(drag_state').object_id = Unwrap(selected_id)
                  /\ selected_id' = selected_id
                  /\ baseline_transform' = baseline_transform
             ELSE /\ drag_state' = drag_state
                  /\ IF IsSome(pick_object(scene, shot.ray_o, shot.ray_d))
                     THEN /\ selected_id' = pick_object(scene, shot.ray_o, shot.ray_d)
                          /\ baseline_transform'
                               = object_transform(scene, Unwrap(selected_id'))
                     ELSE /\ selected_id' = None
                          /\ baseline_transform' = None]_vars

\* a session begun by a ray that meets both the gizmo and the object's
\* bounding sphere, with the selection and the baseline as they were
C25_Witness ==
    /\ IsSome(drag_state)
    /\ tool_mode = "Move"
    /\ selected_id = Some(session.object_id)
    /\ baseline_transform = Some(session.start_transform)
    /\ object_transform(scene, session.object_id) = Some(session.start_transform)
    /\ \E shot \in Shots :
          /\ IsSome(pick_object(scene, shot.ray_o, shot.ray_d))
          /\ IsSome(hit_gizmo(scene, shot.eye, session.object_id, shot.ray_o, shot.ray_d))
          /\ drag_state = Some(DragState(session.object_id,
                                         Unwrap(hit_gizmo(scene, shot.eye, session.object_id,
                                                          shot.ray_o, shot.ray_d)),
                                         session.start_transform))

\* C26: a mousemove without a drag session leaves the scene as it is, every
\* transform and the combined-mesh cache included; a mousemove with a
\* session leaves the number of objects and the transform of every object
\* other than the one whose id the session captured as they are.
C26_PointerMoveFrame ==
    [][MouseMove =>
          IF drag_state = None
          THEN scene' = scene
          ELSE /\ Len(scene'.model.objects) = Len(scene.model.objects)
               /\ \A k \in 1..Len(scene.model.objects) :
                     scene.model.objects[k].id # session.object_id
                        => scene'.model.objects[k] = scene.model.objects[k]]_vars

\* two objects, a session whose object was moved by it while the other one
\* stayed, after the tool was changed or another object was selected
C26_Witness ==
    /\ IsSome(drag_state)
    /\ Len(scene.model.objects) = 2
    /\ object_transform(scene, session.object_id) # Some(session.start_transform)
    /\ \E k \in 1..2 :
          /\ scene.model.objects[k].id # session.object_id
          /\ scene.model.objects[k].transform = Transform_default
    /\ tool_mode # "Move" \/ selected_id # Some(session.object_id)

\* the angle delta of a rotate update: the ring angle of the point where the
\* ray meets the ring plane, less the ring angle at the start, wrapped
RingDelta(ds, shot) ==
    LET n == ds.plane_normal_world
        t == FDiv(Dot(n, VSub(ds.start_origin_world, shot.ray_o)), Dot(n, shot.ray_d))
        vdir == NormalizeOrZero(VSub(VAdd(shot.ray_o, VScale(shot.ray_d, t)),
                                     ds.start_origin_world))
    IN rotate_delta(FAtan2(Dot(vdir, ds.ring_v_world), Dot(vdir, ds.ring_u_world)),
                    ds.start_angle)

LocalAxis(axis) ==
    CASE axis = "X" -> <<One, 0, 0>>
      [] axis = "Y" -> <<0, One, 0>>
      [] axis = "Z" -> <<0, 0, One>>

\* a and b differ by at most tol in every coordinate; rounding adds up to 4
\* units over one rotation composed with another
VWithin(a, b, tol) == \A k \in 1..3 : Abs(a[k] - b[k]) <= tol

\* C27: an applied mousemove of a rotate session leaves the object's
\* translation at the session's start translation; its new rotation turns
\* every vector as the start rotation turns the vector already turned by the
\* wrapped delta about the chosen local axis, so the world direction of that
\* axis is the one the start rotation gives it; a delta of zero stores the
\* start rotation itself.
C27_RotateAboutLocalAxis ==
    [][\A shot \in RingShots :
          (/\ IsSome(drag_state)
           /\ session.mode.tag = "Rotate"
           /\ IsSome(drag_update(session, shot.ray_o, shot.ray_d))
           /\ DragMoveStep(shot))
          => LET new == Unwrap(object_transform(scene', session.object_id))
                 start == session.start_transform
                 delta == RingDelta(session, shot)
                 axis == LocalAxis(session.mode.axis)
             IN /\ new.translation = start.translation
                /\ \A v \in { <<One, 0, 0>>, <<0, One, 0>>, <<0, 0, One>> } :
                      VWithin(QRotate(new.rotation, v),
                              QRotate(start.rotation,
                                      QRotate(from_axis_angle(axis, delta), v)),
                              4)
                /\ VWithin(QRotate(new.rotation, axis), QRotate(start.rotation, axis),
                           4)
                /\ delta = 0 => new.rotation = start.rotation]_vars

\* a rotate session that began from a turned object and has turned it
\* further, in place
C27_Witness ==
    /\ IsSome(drag_state)
    /\ session.mode.tag = "Rotate"
    /\ session.start_transform.rotation # QIdentity
    /\ \E shot \in RingShots :
          /\ object_transform(scene, session.object_id)
                = drag_update(session, shot.ray_o, shot.ray_d)
          /\ RingDelta(session, shot) # 0
    /\ Unwrap(object_transform(scene, session.object_id)).rotation
          # session.start_transform.rotation
    /\ Unwrap(object_transform(scene, session.object_id)).translation
          = session.start_transform.translation

(***************************************************************************)
(* The parallel stores of the scene.                                       *)
(***************************************************************************)
\* the stores have one entry per object, and the entries at an index belong
\* together: the mesh is the tessellation of the solid, the radius and the
\* box are the bounds of the mesh
StoresAligned(s) ==
    /\ Len(s.solids) = Len(s.model.objects)
    /\ Len(s.local_meshes) = Len(s.model.objects)
    /\ Len(s.bounds_radius) = Len(s.model.objects)
    /\ Len(s.local_aabbs) = Len(s.model.objects)
    /\ \A k \in 1..Len(s.model.objects) :
          /\ s.local_meshes[k] = tessellate_solid(s.solids[k], s.tolerance)
          /\ s.bounds_radius[k] = mesh_bounds_radius(s.local_meshes[k])
          /\ s.local_aabbs[k] = mesh_bounds_aabb(s.local_meshes[k])

\* C28: in every state the four stores hold one entry per model object at
\* the object's index, and no step (set_object_transform, mesh(), a later
\* add) changes the entries of an object that is there, so bounds_radius and
\* local_aabb answer the same for its id from then on.
C28_ParallelStores ==
    /\ [](StoresAligned(scene))
    /\ [][\A k \in 1..Len(scene.model.objects) :
             /\ scene'.solids[k] = scene.solids[k]
             /\ scene'.local_meshes[k] = scene.local_meshes[k]
             /\ scene'.bounds_radius[k] = scene.bounds_radius[k]
             /\ scene'.local_aabbs[k] = scene.local_aabbs[k]
             /\ bounds_radius(scene', scene.model.objects[k].id)
                   = bounds_radius(scene, scene.model.objects[k].id)
             /\ local_aabb(scene', scene.model.objects[k].id)
                   = local_aabb(scene, scene.model.objects[k].id)]_vars

\* a box, then a cylinder added after it, the box moved and the mesh read
\* since: the lookup for the box still answers with the box's own bounds
C28_Witness ==
    /\ Len(scene.model.objects) >= 2
    /\ scene.bounds_radius[1] # scene.bounds_radius[2]
    /\ scene.model.objects[1].transform # Transform_default
    /\ IsSome(scene.mesh_cache)
    /\ ret.op = "lookup"
    /\ ret.id = scene.model.objects[1].id
    /\ ret.bounds_radius = Some(mesh_bounds_radius(scene.local_meshes[1]))
    /\ ret.local_aabb = Some(mesh_bounds_aabb(scene.local_meshes[1]))

(***************************************************************************)
(* The view-snap animation.                                                *)
(***************************************************************************)
\* C29: a frame that comes duration_ms or more after the only pending
\* view-snap animation was started ends it: the camera's target, rotation
\* and distance are the animation's end values and the window holds no
\* callback for a further frame.
C29_SnapAnimationEnds ==
    [][\A time \in EventTimes :
          (/\ IsSome(renderer)
           /\ Len(raf) = 1
           /\ time - (raf[1].start_ms - TimeOrigin) >= duration_ms
           /\ AnimationFrameAt(time))
          => /\ raf' = <<>>
             /\ Unwrap(renderer').camera.target = raf[1].end_target
             /\ Unwrap(renderer').camera.rotation = raf[1].end_rot
             /\ Unwrap(renderer').camera.radius = raf[1].end_radius]_vars

(***************************************************************************)
(* cad-server: the connection handlers, their send tasks and the job       *)
(* worker as tasks of the multi-threaded runtime, which runs them in any   *)
(* order between their channel operations.  A send on a full channel       *)
(* waits.  Messages are kept as ServerMsg values: serde_json::to_string    *)
(* does not fail on them.                                                  *)
(***************************************************************************)
server_frame == <<scene, ret, last_read, editor_vars, camera_vars>>

\* handle_socket up to its receive loop: the channel, the send task and the
\* first HelloAck
Connect(c) ==
    /\ server.conns[c].pc = "closed"
    /\ server' = [server EXCEPT !.conns[c].pc = "recv",
                                !.conns[c].out = <<[variant |-> "HelloAck"]>>]
    /\ UNCHANGED server_frame

\* the RequestHeavy branch up to the job's send: the id is drawn and the job
\* is put on the worker's queue
HandleRequestHeavy(c) ==
    \E payload \in {None, Some("ok")} :
        /\ server.conns[c].pc = "recv"
        /\ server.next_job_id <= MaxJobs
        /\ Len(server.job_queue) < job_capacity
        /\ server' = [server EXCEPT
                        !.next_job_id = @ + 1,
                        !.job_queue = Append(@, [id |-> server.next_job_id,
                                                 kind |-> "heavy", payload |-> payload,
                                                 respond_to |-> c]),
                        !.conns[c].pc = "accept",
                        !.conns[c].job_id = server.next_job_id]
        /\ UNCHANGED server_frame

\* the rest of the RequestHeavy branch: JobAccepted goes to the out channel
HandleSendAccepted(c) ==
    /\ server.conns[c].pc = "accept"
    /\ Len(server.conns[c].out) < out_capacity
    /\ server' = [server EXCEPT
                    !.conns[c].pc = "recv",
                    !.conns[c].out = Append(@, [variant |-> "JobAccepted",
                                                job_id |-> server.conns[c].job_id])]
    /\ UNCHANGED server_frame

\* the AddBox and AddCylinder branch
HandleAddPrimitive(c) ==
    /\ server.conns[c].pc = "recv"
    /\ server.logs < MaxLogs
    /\ Len(server.conns[c].out) < out_capacity
    /\ server' = [server EXCEPT
                    !.logs = @ + 1,
                    !.conns[c].out = Append(@, [variant |-> "Log",
                                                text |-> "received add-primitive"])]
    /\ UNCHANGED server_frame

\* job_worker: rx.recv() takes the next job
WorkerRecv ==
    /\ server.worker = None
    /\ server.job_queue # <<>>
    /\ server' = [server EXCEPT !.worker = Some(Head(server.job_queue)),
                                !.job_queue = Tail(@)]
    /\ UNCHANGED server_frame

\* job_worker: the blocking task has returned and JobResult goes to the out
\* channel of the job's connection
WorkerRespond ==
    /\ IsSome(server.worker)
    /\ LET job == Unwrap(server.worker)
           details == IF IsSome(job.payload) THEN Unwrap(job.payload) ELSE "no-payload"
       IN /\ Len(server.conns[job.respond_to].out) < out_capacity
          /\ server' = [server EXCEPT
                          !.worker = None,
                          !.conns[job.respond_to].out =
                              Append(@, [variant |-> "JobResult", job_id |-> job.id,
                                         payload |-> <<"heavy job done", job.kind,
                                                       details>>])]
    /\ UNCHANGED server_frame

\* the send task: the next message of the out channel is written to the socket
SendTask(c) ==
    /\ server.conns[c].out # <<>>
    /\ server' = [server EXCEPT
                    !.conns[c].delivered = Append(@, Head(server.conns[c].out)),
                    !.conns[c].out = Tail(@)]
    /\ UNCHANGED server_frame

ServerNext ==
    \/ \E c \in Conns : Connect(c)
    \/ \E c \in Conns : HandleRequestHeavy(c)
    \/ \E c \in Conns : HandleSendAccepted(c)
    \/ \E c \in Conns : HandleAddPrimitive(c)
    \/ WorkerRecv
    \/ WorkerRespond
    \/ \E c \in Conns : SendTask(c)

ServerSpec == Init /\ [][ServerNext]_vars

\* C30: on every connection, a JobResult written to the socket comes after
\* the JobAccepted of the same job_id on that connection, and no job_id has
\* two JobResults.
C30_AcceptedBeforeResult ==
    \A c \in Conns :
        LET d == server.conns[c].delivered
        IN /\ \A p \in 1..Len(d) :
                 d[p].variant = "JobResult" =>
                    \E q \in 1..(p - 1) :
                        d[q] = [variant |-> "JobAccepted", job_id |-> d[p].job_id]
           /\ \A p, q \in 1..Len(d) :
                 (/\ d[p].variant = "JobResult"
                  /\ d[q].variant = "JobResult"
                  /\ d[p].job_id = d[q].job_id) => p = q

====
